---- MODULE Spec2Model ----
(***************************************************************************)
(* A model of drmock-generator: the layered C++ type representation, the   *)
(* method model with operator-name mangling, the overload engine and the   *)
(* assembly of the mock object / mock implementation classes.              *)
(*                                                                         *)
(* Conventions.  A Python str that the program only builds by              *)
(* concatenation is a TLA+ string.  A method name is searched and          *)
(* rewritten character by character by mangled_name, so a name is a        *)
(* sequence of one-character strings.  A Type is the chain of its layers,  *)
(* outermost first, together with the terminal spelling held by the        *)
(* innermost layer.                                                        *)
(***************************************************************************)
EXTENDS Integers, Sequences, FiniteSets, TLC

VARIABLES class_, args, pc, mock_object, mock_implementation,
          called, self_, returned

vars == <<class_, args, pc, mock_object, mock_implementation,
          called, self_, returned>>

(***************************************************************************)
(* Bounds of the model.                                                    *)
(***************************************************************************)
\* The number of members of the class the assembly is exercised with.
MaxMembers == 3
\* The number of signatures of the overload the engine is exercised with.
MaxSignatures == 2
\* The number of layers of the Types the Type methods are called on.
MaxLayers == 3
\* The number of tokens of the sequences Type.from_tokens is called on.
MaxTokens == 3
\* The number of operator symbols in the names mangled_name is called on.
MaxSymbols == 2

(***************************************************************************)
(* overload.py, generator.py: constants.                                   *)
(***************************************************************************)
MOCK_OBJECT_NAME == "mock"
SHARED_PTR_PREFIX == "DRMOCK_METHOD_PTR"
STATE_OBJECT_NAME == "DRMOCK_STATE_OBJECT_"
DRMOCK_NAMESPACE == "::drmock"
CONST_ENUM == DRMOCK_NAMESPACE \o "::Const"
VOLATILE_ENUM == DRMOCK_NAMESPACE \o "::Volatile"
LVALUE_ENUM == DRMOCK_NAMESPACE \o "::LValueRef"
RVALUE_ENUM == DRMOCK_NAMESPACE \o "::RValueRef"
TYPE_CONTAINER == DRMOCK_NAMESPACE \o "::TypeContainer"
PARAMETER_PACK == "... DRMOCK_Ts"
MOVE_IF_NOT_COPY_CONSTRUCTIBLE == DRMOCK_NAMESPACE \o "::move_if_not_copy_constructible"
DISPATCH_PREFIX == "DRMOCK_DISPATCH"
MOCK_OBJECT_PREFIX == "DRMOCK_OBJECT"
CONTROLLER_CPP_CLASS == "::drmock::Controller"

(***************************************************************************)
(* Text helpers.                                                           *)
(***************************************************************************)
RECURSIVE Join(_, _)
\* sep.join(seq) for a sequence of strings: the two halves of the
\* sequence are joined, with sep between them.
Join(seq, sep) ==
    IF seq = <<>> THEN ""
    ELSE IF Len(seq) = 1 THEN seq[1]
    ELSE LET half == Len(seq) \div 2
         IN  Join(SubSeq(seq, 1, half), sep) \o sep
                 \o Join(SubSeq(seq, half + 1, Len(seq)), sep)

\* The str of a name held as a sequence of characters.
Text(chars) == Join(chars, "")

\* utils.template: join the str of each element in angled braces.
template(params) == "<" \o Join(params, ", ") \o ">"

\* Python's bool * str.
Times(flag, s) == IF flag THEN s ELSE ""

RECURSIVE Flatten(_)
\* sum(list_of_lists, []): the two halves of the list are concatenated.
Flatten(lists) ==
    IF lists = <<>> THEN <<>>
    ELSE IF Len(lists) = 1 THEN lists[1]
    ELSE LET half == Len(lists) \div 2
         IN  Flatten(SubSeq(lists, 1, half))
                 \o Flatten(SubSeq(lists, half + 1, Len(lists)))

(***************************************************************************)
(* types.Type.  Layer flags; a Type is [inner, layers] with layers[1] the  *)
(* outermost layer and inner the terminal spelling of the last layer.      *)
(***************************************************************************)
Naked ==
    [const |-> FALSE, volatile |-> FALSE, lvalue_ref |-> FALSE,
     rvalue_ref |-> FALSE, pointer |-> FALSE, parameter_pack |-> FALSE]

\* Type(inner) for a str inner, with keyword flags given as a layer.
Type(inner, layer) == [inner |-> inner, layers |-> <<layer>>]

\* Type(inner=t, ...) for a Type inner: one more layer around t.
Wrap(t, layer) == [inner |-> t.inner, layers |-> <<layer>> \o t.layers]

\* Type._is_naked, of one layer.
_is_naked(layer) ==
    /\ ~layer.const
    /\ ~layer.volatile
    /\ ~layer.lvalue_ref
    /\ ~layer.rvalue_ref
    /\ ~layer.pointer
    /\ ~layer.parameter_pack

\* SkipNaked with an if in place of the while: one naked layer is skipped.
SkipNaked_once(layers) ==
    IF Len(layers) > 1 /\ _is_naked(layers[1]) THEN Tail(layers) ELSE layers

RECURSIVE SkipNaked(_)
\* The while loop of _get_simplified: descend while the layer is naked and
\* its inner is not a str (it is not the last layer).
SkipNaked(layers) ==
    IF Len(layers) > 1 /\ _is_naked(layers[1])
    THEN SkipNaked(Tail(layers))
    ELSE layers

RECURSIVE SimplifiedLayers_keep_last(_, _)
\* SimplifiedLayers without the skip of a naked last layer on later passes.
SimplifiedLayers_keep_last(layers, first_pass) ==
    LET result == SkipNaked(layers)
    IN  IF Len(result) = 1 THEN result
        ELSE <<result[1]>> \o SimplifiedLayers_keep_last(Tail(result), FALSE)

RECURSIVE SimplifiedLayers(_, _)
\* The body of _get_simplified after the loop: the layers of the result.
SimplifiedLayers(layers, first_pass) ==
    LET result == SkipNaked(layers)
    IN  IF Len(result) = 1
        THEN IF ~first_pass /\ _is_naked(result[1]) THEN <<>> ELSE result
        ELSE <<result[1]>> \o SimplifiedLayers(Tail(result), FALSE)

\* Type._get_simplified.
_get_simplified(t) ==
    [inner |-> t.inner, layers |-> SimplifiedLayers(t.layers, TRUE)]

\* Type.get_decayed.
get_decayed(t) ==
    LET result == _get_simplified(t)
        outer == result.layers[1]
        L == result.layers
        cleared ==
            IF outer.lvalue_ref \/ outer.rvalue_ref
            THEN LET L1 == [L EXCEPT ![1].lvalue_ref = FALSE,
                                     ![1].rvalue_ref = FALSE]
                 IN  IF Len(L) > 1
                     THEN [L1 EXCEPT ![2].const = FALSE, ![2].volatile = FALSE]
                     ELSE L1
            ELSE [L EXCEPT ![1].const = FALSE, ![1].volatile = FALSE]
    IN  _get_simplified([inner |-> result.inner, layers |-> cleared])

RECURSIVE LayersPieces_volatile_first(_, _)
\* LayersPieces with " volatile" in front of " const" on a pointer layer.
LayersPieces_volatile_first(inner, layers) ==
    IF layers = <<>> THEN <<inner>>
    ELSE LET l == layers[1]
             r0 == LayersPieces_volatile_first(inner, Tail(layers))
             r1 == r0 \o (IF l.lvalue_ref THEN <<" &">> ELSE <<>>)
                      \o (IF l.rvalue_ref THEN <<" &&">> ELSE <<>>)
             r2 == IF l.pointer
                   THEN r1 \o <<" *">>
                           \o (IF l.volatile THEN <<" volatile">> ELSE <<>>)
                           \o (IF l.const THEN <<" const">> ELSE <<>>)
                   ELSE (IF l.const THEN <<"const ">> ELSE <<>>)
                           \o (IF l.volatile THEN <<"volatile ">> ELSE <<>>)
                           \o r1
         IN  r2 \o (IF l.parameter_pack THEN <<" ", "...">> ELSE <<>>)

RECURSIVE LayersPieces(_, _)
\* The pieces that Type.__str__ concatenates, layer by layer; the pack
\* ellipsis is a piece of its own.
LayersPieces(inner, layers) ==
    IF layers = <<>> THEN <<inner>>
    ELSE LET l == layers[1]
             r0 == LayersPieces(inner, Tail(layers))
             r1 == r0 \o (IF l.lvalue_ref THEN <<" &">> ELSE <<>>)
                      \o (IF l.rvalue_ref THEN <<" &&">> ELSE <<>>)
             r2 == IF l.pointer
                   THEN r1 \o <<" *">>
                           \o (IF l.const THEN <<" const">> ELSE <<>>)
                           \o (IF l.volatile THEN <<" volatile">> ELSE <<>>)
                   ELSE (IF l.const THEN <<"const ">> ELSE <<>>)
                           \o (IF l.volatile THEN <<"volatile ">> ELSE <<>>)
                           \o r1
         IN  r2 \o (IF l.parameter_pack THEN <<" ", "...">> ELSE <<>>)

\* Type.__str__.
Type__str__(t) == Join(LayersPieces(t.inner, t.layers), "")

\* The characters of the pieces of Type.__str__ and of the terminal
\* spellings of the model.
Chars ==
    [piece \in {" &", " &&", " *", " const", " volatile", "const ", "volatile ",
                " ", "...", "T", "unsigned int"} |->
        CASE piece = " &" -> <<" ", "&">>
          [] piece = " &&" -> <<" ", "&", "&">>
          [] piece = " *" -> <<" ", "*">>
          [] piece = " const" -> <<" ", "c", "o", "n", "s", "t">>
          [] piece = " volatile" -> <<" ", "v", "o", "l", "a", "t", "i", "l", "e">>
          [] piece = "const " -> <<"c", "o", "n", "s", "t", " ">>
          [] piece = "volatile " -> <<"v", "o", "l", "a", "t", "i", "l", "e", " ">>
          [] piece = " " -> <<" ">>
          [] piece = "..." -> <<".", ".", ".">>
          [] piece = "T" -> <<"T">>
          [] piece = "unsigned int" ->
                 <<"u", "n", "s", "i", "g", "n", "e", "d", " ", "i", "n", "t">>]

\* Type.__str__, character by character.
StrChars(t) ==
    LET pieces == LayersPieces(t.inner, t.layers)
    IN  Flatten([i \in 1..Len(pieces) |-> Chars[pieces[i]]])

\* str.find(k) on a sequence of characters: the first position at which k
\* stands in s, 0 where it stands nowhere.
find(s, k) ==
    LET at(p) == SubSeq(s, p, p + Len(k) - 1) = k
        positions == 1..(Len(s) - Len(k) + 1)
    IN  IF \E p \in positions : at(p)
        THEN CHOOSE p \in positions : at(p) /\ \A q \in 1..(p - 1) : ~at(q)
        ELSE 0

RECURSIVE SplitFrom(_, _)
\* str.split(sep) for a separator of one character: the word in front of
\* the first separator and the words of what follows it.
SplitFrom(s, sep) ==
    LET p == find(s, <<sep>>)
    IN  IF p = 0 THEN <<s>>
        ELSE <<SubSeq(s, 1, p - 1)>> \o SplitFrom(SubSeq(s, p + 1, Len(s)), sep)

\* spelling.split(" "), each token as text.
split(spelling) ==
    LET words == SplitFrom(spelling, " ")
    IN  [i \in 1..Len(words) |-> Text(words[i])]

\* The outcome of a call that raises IndexError.
IndexError == [raised |-> "IndexError"]

RECURSIVE ReadRight_without_break(_, _)
\* ReadRight without the break after "*", "&" and "&&": the loop reads on.
ReadRight_without_break(tokens, t) ==
    IF tokens = <<>> THEN IndexError
    ELSE LET last == tokens[Len(tokens)]
             rest == SubSeq(tokens, 1, Len(tokens) - 1)
         IN  CASE last = "const" -> ReadRight_without_break(rest, [t EXCEPT !.const = TRUE])
               [] last = "volatile" ->
                      ReadRight_without_break(rest, [t EXCEPT !.volatile = TRUE])
               [] last = "..." ->
                      ReadRight_without_break(rest, [t EXCEPT !.parameter_pack = TRUE])
               [] last = "*" -> ReadRight_without_break(rest, [t EXCEPT !.pointer = TRUE])
               [] last = "&" -> ReadRight_without_break(rest, [t EXCEPT !.lvalue_ref = TRUE])
               [] last = "&&" -> ReadRight_without_break(rest, [t EXCEPT !.rvalue_ref = TRUE])
               [] OTHER -> [tokens |-> tokens, t |-> t]

RECURSIVE ReadRight(_, _)
\* from_tokens: the loop that reads from the right.  The result is the
\* tokens that are left and the flags of t, or IndexError from tokens[-1]
\* of an empty list.
ReadRight(tokens, t) ==
    IF tokens = <<>> THEN IndexError
    ELSE LET last == tokens[Len(tokens)]
             rest == SubSeq(tokens, 1, Len(tokens) - 1)
         IN  CASE last = "const" -> ReadRight(rest, [t EXCEPT !.const = TRUE])
               [] last = "volatile" -> ReadRight(rest, [t EXCEPT !.volatile = TRUE])
               [] last = "..." -> ReadRight(rest, [t EXCEPT !.parameter_pack = TRUE])
               [] last = "*" -> [tokens |-> rest, t |-> [t EXCEPT !.pointer = TRUE]]
               [] last = "&" -> [tokens |-> rest, t |-> [t EXCEPT !.lvalue_ref = TRUE]]
               [] last = "&&" -> [tokens |-> rest, t |-> [t EXCEPT !.rvalue_ref = TRUE]]
               [] OTHER -> [tokens |-> tokens, t |-> t]

RECURSIVE ReadLeft(_, _)
\* from_tokens: the loop that reads from the left.
ReadLeft(tokens, t) ==
    IF tokens = <<>> THEN IndexError
    ELSE CASE tokens[1] = "const" -> ReadLeft(Tail(tokens), [t EXCEPT !.const = TRUE])
           [] tokens[1] = "volatile" -> ReadLeft(Tail(tokens), [t EXCEPT !.volatile = TRUE])
           [] OTHER -> [tokens |-> tokens, t |-> t]

RECURSIVE from_tokens_placeholder(_)
\* from_tokens with a read from the right that stops at the end of the
\* tokens: the Type keeps the temporary inner name.
from_tokens_placeholder(tokens) ==
    LET right == ReadRight(tokens, Naked)
    IN  IF right = IndexError THEN Type("T", Naked)
        ELSE IF right.t.pointer \/ right.t.lvalue_ref \/ right.t.rvalue_ref
        THEN _get_simplified(Wrap(from_tokens_placeholder(right.tokens), right.t))
        ELSE LET left == ReadLeft(right.tokens, right.t)
             IN  _get_simplified(Type(Join(left.tokens, " "), left.t))

RECURSIVE from_tokens(_)
\* Type.from_tokens.
from_tokens(tokens) ==
    LET right == ReadRight(tokens, Naked)
    IN  IF right = IndexError THEN IndexError
        ELSE IF right.t.pointer \/ right.t.lvalue_ref \/ right.t.rvalue_ref
        THEN LET inner == from_tokens(right.tokens)
             IN  IF inner = IndexError THEN IndexError
                 ELSE _get_simplified(Wrap(inner, right.t))
        ELSE LET left == ReadLeft(right.tokens, right.t)
             IN  IF left = IndexError THEN IndexError
                 ELSE _get_simplified(Type(Join(left.tokens, " "), left.t))

\* Type.from_spelling.
from_spelling(spelling) == from_tokens(split(spelling))

(***************************************************************************)
(* types.TemplateDecl.  A template parameter is its name and whether it    *)
(* is written with a leading "... ".                                       *)
(***************************************************************************)
TemplateParam(name, variadic) == [name |-> name, variadic |-> variadic]

\* The parameter as it is given to TemplateDecl ("T" or "... Ts").
TemplateParamStr(p) == Times(p.variadic, "... ") \o p.name

\* TemplateDecl.get_args: the tokens of a variadic parameter are swapped.
get_args(params) ==
    [i \in 1..Len(params) |-> params[i].name \o Times(params[i].variadic, " ...")]

PARAMETER_PACK_DECL == TemplateParam("DRMOCK_Ts", TRUE)

(***************************************************************************)
(* types.Method and the operator table.                                    *)
(***************************************************************************)
_OPERATOR_SYMBOLS ==
    <<
       <<<<"<", "=", ">">>, <<"S", "p", "a", "c", "e", "S", "h", "i", "p">>>>,
       <<<<"-", ">", "*">>, <<"P", "o", "i", "n", "t", "e", "r", "T", "o", "M", "e", "m", "b", "e", "r">>>>,
       <<<<"c", "o", "_", "a", "w", "a", "i", "t">>, <<"C", "o", "A", "w", "a", "i", "t">>>>,
       <<<<"=", "=">>, <<"E", "q", "u", "a", "l">>>>,
       <<<<"!", "=">>, <<"N", "o", "t", "E", "q", "u", "a", "l">>>>,
       <<<<"<", "=">>, <<"L", "e", "s", "s", "e", "r", "O", "r", "E", "q", "u", "a", "l">>>>,
       <<<<">", "=">>, <<"G", "r", "e", "a", "t", "e", "r", "O", "r", "E", "q", "u", "a", "l">>>>,
       <<<<"<", "<">>, <<"S", "t", "r", "e", "a", "m", "L", "e", "f", "t">>>>,
       <<<<">", ">">>, <<"S", "t", "r", "e", "a", "m", "R", "i", "g", "h", "t">>>>,
       <<<<"&", "&">>, <<"A", "n", "d">>>>,
       <<<<"|", "|">>, <<"O", "r">>>>,
       <<<<"+", "+">>, <<"I", "n", "c", "r", "e", "m", "e", "n", "t">>>>,
       <<<<"-", "-">>, <<"D", "e", "c", "r", "e", "m", "e", "n", "t">>>>,
       <<<<"-", ">">>, <<"A", "r", "r", "o", "w">>>>,
       <<<<"(", ")">>, <<"C", "a", "l", "l">>>>,
       <<<<"[", "]">>, <<"B", "r", "a", "c", "k", "e", "t", "s">>>>,
       <<<<"+">>, <<"P", "l", "u", "s">>>>,
       <<<<"-">>, <<"M", "i", "n", "u", "s">>>>,
       <<<<"*">>, <<"A", "s", "t">>>>,
       <<<<"/">>, <<"D", "i", "v">>>>,
       <<<<"%">>, <<"M", "o", "d", "u", "l", "o">>>>,
       <<<<"^">>, <<"C", "a", "r", "e", "t">>>>,
       <<<<"&">>, <<"A", "m", "p">>>>,
       <<<<"|">>, <<"P", "i", "p", "e">>>>,
       <<<<"~">>, <<"T", "i", "l", "d", "e">>>>,
       <<<<"!">>, <<"N", "o", "t">>>>,
       <<<<"=">>, <<"A", "s", "s", "i", "g", "n">>>>,
       <<<<"<">>, <<"L", "e", "s", "s", "e", "r">>>>,
       <<<<">">>, <<"G", "r", "e", "a", "t", "e", "r">>>>,
       <<<<",">>, <<"C", "o", "m", "m", "a">>>>
    >>

RECURSIVE replace(_, _, _)
\* str.replace(k, v) on a sequence of characters (k is not empty): the
\* occurrences of k from the left, none overlapping another.
replace(s, k, v) ==
    LET p == find(s, k)
    IN  IF p = 0 THEN s
        ELSE SubSeq(s, 1, p - 1) \o v
                 \o replace(SubSeq(s, p + Len(k), Len(s)), k, v)

RECURSIVE ReplaceFrom_reversed(_, _)
\* ReplaceFrom over the table from its last entry to its first.
ReplaceFrom_reversed(result, i) ==
    IF i > Len(_OPERATOR_SYMBOLS) \/ result = <<>> THEN result
    ELSE LET entry == _OPERATOR_SYMBOLS[Len(_OPERATOR_SYMBOLS) + 1 - i]
         IN  ReplaceFrom_reversed(replace(result, entry[1], entry[2]), i + 1)

RECURSIVE ReplaceFrom(_, _)
\* The loop of mangled_name over the table, from entry i on (nothing is
\* replaced in an empty result).
ReplaceFrom(result, i) ==
    IF i > Len(_OPERATOR_SYMBOLS) \/ result = <<>> THEN result
    ELSE ReplaceFrom(replace(result, _OPERATOR_SYMBOLS[i][1],
                             _OPERATOR_SYMBOLS[i][2]), i + 1)

\* The body of Method.mangled_name, for a name.
mangle(name) == ReplaceFrom(name, 1)

Name_f == <<"f">>
Name_operatorEq == <<"o", "p", "e", "r", "a", "t", "o", "r", "=", "=">>

\* The method names of the model.
MethodNames == {Name_f, Name_operatorEq}

\* The mangled name of each method name, computed once.
MangledNames == [name \in MethodNames |-> Text(mangle(name))]

\* Method.mangled_name, as text.
mangled_name(f) == MangledNames[f.name]

\* Method(name, ...) with the dataclass defaults for what is not given.
Method(name, params, return_type, const, volatile, lvalue, rvalue, virtual, pure_virtual, noexcept, access_) ==
    [kind |-> "Method", name |-> name, params |-> params,
     return_type |-> return_type, template |-> <<>>,
     const |-> const, volatile |-> volatile, lvalue |-> lvalue,
     rvalue |-> rvalue, virtual |-> virtual, pure_virtual |-> pure_virtual,
     override |-> FALSE, noexcept |-> noexcept, operator |-> FALSE,
     body |-> "", access |-> access_]

\* TypeAlias(name, typedef).
TypeAlias(name, typedef, access_) ==
    [kind |-> "TypeAlias", name |-> name, typedef |-> typedef,
     template |-> <<>>, access |-> access_]

\* Variable(name, type, default_args, mutable, access).
Variable(name, type, default_args, mutable, access_) ==
    [kind |-> "Variable", name |-> name, type |-> type,
     default_args |-> default_args, mutable |-> mutable, access |-> access_]

\* generator.Friend(name, access).
Friend(name, access_) == [kind |-> "Friend", name |-> name, access |-> access_]

(***************************************************************************)
(* types.Class.                                                            *)
(***************************************************************************)
\* Class.full_name.
full_name(c) ==
    Join([i \in 1..Len(c.enclosing_namespace) |-> c.enclosing_namespace[i] \o "::"], "")
        \o c.name
        \o (IF c.template # <<>> THEN template(get_args(c.template)) ELSE "")

\* get_virtual_methods without the test of the virtual flag.
get_virtual_methods_of_any_kind(c) ==
    LET IsMethod(each) == each.kind = "Method"
    IN  SelectSeq(c.members, IsMethod)

\* Class.get_virtual_methods.
get_virtual_methods(c) ==
    LET IsVirtualMethod(each) == each.kind = "Method" /\ each.virtual
    IN  SelectSeq(c.members, IsVirtualMethod)

\* Class.get_type_aliases.
get_type_aliases(c) ==
    LET IsAlias(each) == each.kind = "TypeAlias"
    IN  SelectSeq(c.members, IsAlias)

(***************************************************************************)
(* utils.split_by_condition, with pred = mangled_name.                     *)
(***************************************************************************)
RECURSIVE Values(_, _)
\* The values of pred in order of first occurrence.
Values(seq, values) ==
    IF seq = <<>> THEN values
    ELSE LET val == mangled_name(Head(seq))
         IN  Values(Tail(seq),
                    IF \E i \in 1..Len(values) : values[i] = val
                    THEN values ELSE Append(values, val))

\* split_by_condition with the classes in reverse order of first occurrence.
split_by_condition_reversed(seq) ==
    LET values == Values(seq, <<>>)
    IN  [j \in 1..Len(values) |->
            LET Same(each) == mangled_name(each) = values[Len(values) + 1 - j]
            IN  SelectSeq(seq, Same)]

\* utils.split_by_condition.
split_by_condition(seq) ==
    LET values == Values(seq, <<>>)
    IN  [j \in 1..Len(values) |->
            LET Same(each) == mangled_name(each) = values[j]
            IN  SelectSeq(seq, Same)]

\* overload.get_overloads_of_class: the member lists of the Overload
\* objects, in order (the parent of each of them is class_).
get_overloads_of_class(c, access_specs) ==
    LET specs == IF access_specs = <<>> THEN <<"public">> ELSE access_specs
        Allowed(each) == \E i \in 1..Len(specs) : specs[i] = each.access
    IN  split_by_condition(SelectSeq(get_virtual_methods(c), Allowed))

(***************************************************************************)
(* overload.Overload.  An Overload is (parent, methods); the operators     *)
(* below take the fields they read.                                        *)
(***************************************************************************)
\* The str of each element of a list of Types.
Strs(types) == [i \in 1..Len(types) |-> Type__str__(types[i])]

\* _shared_ptr_name without the index of the method.
_shared_ptr_name_unindexed(mangled, i) == SHARED_PTR_PREFIX \o mangled \o "_"

\* overload._shared_ptr_name.
_shared_ptr_name(mangled, i) == SHARED_PTR_PREFIX \o mangled \o "_" \o ToString(i)

\* overload._dispatch_name.
_dispatch_name(mangled) == DISPATCH_PREFIX \o mangled

\* _overloaded with the comparison off by one.
_overloaded_from_one(methods) == Len(methods) >= 1

\* Overload._overloaded.
_overloaded(methods) == Len(methods) > 1

\* Overload._all_same_params.
_all_same_params(methods) ==
    \A i \in 1..Len(methods) : methods[i].params = methods[1].params

\* Overload._all_same_qualifiers.
_all_same_qualifiers(methods) ==
    LET f == methods[1]
        qualifiers == <<f.const, f.lvalue, f.rvalue>>
    IN  \A i \in 1..Len(methods) :
            <<methods[i].const, methods[i].lvalue, methods[i].rvalue>> = qualifiers

\* getter_dispatch with the check of _all_same_qualifiers left out: a marker
\* is appended as soon as every method carries the qualifier.
getter_dispatch_unchecked(methods) ==
    LET f == methods[1]
        All(Flag(_)) == \A i \in 1..Len(methods) : Flag(methods[i])
        IsConst(each) == each.const
        IsLvalue(each) == each.lvalue
        IsRvalue(each) == each.rvalue
    IN  (IF _all_same_params(methods) THEN Strs(f.params) ELSE <<>>)
        \o (IF _overloaded(methods) THEN get_args(<<PARAMETER_PACK_DECL>>) ELSE <<>>)
        \o (IF All(IsConst) THEN <<CONST_ENUM>> ELSE <<>>)
        \o (IF All(IsLvalue) THEN <<LVALUE_ENUM>> ELSE <<>>)
        \o (IF All(IsRvalue) THEN <<RVALUE_ENUM>> ELSE <<>>)

\* generate_getter: the list ``dispatch`` (as the text of its elements).
getter_dispatch(methods) ==
    LET f == methods[1]
        All(Flag(_)) == \A i \in 1..Len(methods) : Flag(methods[i])
        IsConst(each) == each.const
        IsLvalue(each) == each.lvalue
        IsRvalue(each) == each.rvalue
    IN  (IF _all_same_params(methods) THEN Strs(f.params) ELSE <<>>)
        \o (IF _overloaded(methods) THEN get_args(<<PARAMETER_PACK_DECL>>) ELSE <<>>)
        \o (IF _all_same_qualifiers(methods)
            THEN (IF All(IsConst) THEN <<CONST_ENUM>> ELSE <<>>)
                 \o (IF All(IsLvalue) THEN <<LVALUE_ENUM>> ELSE <<>>)
                 \o (IF All(IsRvalue) THEN <<RVALUE_ENUM>> ELSE <<>>)
            ELSE <<>>)

\* Overload.generate_getter.
generate_getter(methods) ==
    LET f == methods[1]
    IN  [kind |-> "Method", name |-> mangled_name(f), params |-> <<>>,
         return_type |-> Type("auto", [Naked EXCEPT !.lvalue_ref = TRUE]),
         template |-> IF _overloaded(methods) THEN <<PARAMETER_PACK_DECL>> ELSE <<>>,
         const |-> FALSE, volatile |-> FALSE, lvalue |-> FALSE, rvalue |-> FALSE,
         virtual |-> FALSE, pure_virtual |-> FALSE, override |-> FALSE,
         noexcept |-> FALSE, operator |-> FALSE,
         body |-> "return " \o _dispatch_name(mangled_name(f)) \o "("
                  \o TYPE_CONTAINER \o template(getter_dispatch(methods)) \o "{});",
         access |-> "public"]

\* shared_ptr_template_args with the parameter types as declared.
shared_ptr_template_args_declared(parent, f) ==
    <<full_name(parent), Type__str__(f.return_type)>> \o Strs(f.params)

\* generate_shared_ptrs: the list ``template_args`` of one method.
shared_ptr_template_args(parent, f) ==
    <<full_name(parent), Type__str__(f.return_type)>>
        \o [i \in 1..Len(f.params) |-> Type__str__(get_decayed(f.params[i]))]

\* generate_shared_ptrs constructing the storage from the mangled name.
generate_shared_ptrs_mangled(parent, methods) ==
    [i \in 1..Len(methods) |->
        LET f == methods[i]
            value_type == "::drmock::Method" \o template(shared_ptr_template_args(parent, f))
            ptr == "std::make_shared<" \o value_type \o ">(\"" \o mangled_name(f)
                       \o "\", " \o STATE_OBJECT_NAME \o ")"
        IN  Variable(_shared_ptr_name(mangled_name(f), i - 1),
                     "std::shared_ptr<" \o value_type \o ">",
                     <<ptr>>, FALSE, "private")]

\* Overload.generate_shared_ptrs.
generate_shared_ptrs(parent, methods) ==
    [i \in 1..Len(methods) |->
        LET f == methods[i]
            value_type == "::drmock::Method" \o template(shared_ptr_template_args(parent, f))
            ptr == "std::make_shared<" \o value_type \o ">(\"" \o Text(f.name)
                       \o "\", " \o STATE_OBJECT_NAME \o ")"
        IN  Variable(_shared_ptr_name(mangled_name(f), i - 1),
                     "std::shared_ptr<" \o value_type \o ">",
                     <<ptr>>, FALSE, "private")]

\* dispatch_template_args with the volatile marker appended first.
dispatch_template_args_volatile_first(f) ==
    Strs(f.params)
        \o (IF f.volatile THEN <<VOLATILE_ENUM>> ELSE <<>>)
        \o (IF f.const THEN <<CONST_ENUM>> ELSE <<>>)
        \o (IF f.lvalue THEN <<LVALUE_ENUM>> ELSE <<>>)
        \o (IF f.rvalue THEN <<RVALUE_ENUM>> ELSE <<>>)

\* generate_dispatch_methods: the list ``template_args`` of one method.
dispatch_template_args(f) ==
    Strs(f.params)
        \o (IF f.const THEN <<CONST_ENUM>> ELSE <<>>)
        \o (IF f.volatile THEN <<VOLATILE_ENUM>> ELSE <<>>)
        \o (IF f.lvalue THEN <<LVALUE_ENUM>> ELSE <<>>)
        \o (IF f.rvalue THEN <<RVALUE_ENUM>> ELSE <<>>)

\* Overload.generate_dispatch_methods.
generate_dispatch_methods(methods) ==
    [i \in 1..Len(methods) |->
        LET f == methods[i]
        IN  [kind |-> "Method", name |-> _dispatch_name(mangled_name(f)),
             params |-> <<Type(TYPE_CONTAINER \o template(dispatch_template_args(f)), Naked)>>,
             return_type |-> Type("auto", [Naked EXCEPT !.lvalue_ref = TRUE]),
             template |-> <<>>,
             const |-> FALSE, volatile |-> FALSE, lvalue |-> FALSE, rvalue |-> FALSE,
             virtual |-> FALSE, pure_virtual |-> FALSE, override |-> FALSE,
             noexcept |-> FALSE, operator |-> FALSE,
             body |-> "return *" \o _shared_ptr_name(mangled_name(f), i - 1) \o ";",
             access |-> "private"]]

\* _generate_access: the list ``template_args`` (the method is overloaded).
access_template_args(methods, f) ==
    (IF ~_all_same_params(methods) THEN Strs(f.params) ELSE <<>>)
    \o (IF ~_all_same_qualifiers(methods)
        THEN (IF f.const THEN <<CONST_ENUM>> ELSE <<>>)
             \o (IF f.volatile THEN <<VOLATILE_ENUM>> ELSE <<>>)
             \o (IF f.lvalue THEN <<LVALUE_ENUM>> ELSE <<>>)
             \o (IF f.rvalue THEN <<RVALUE_ENUM>> ELSE <<>>)
        ELSE <<>>)

\* Overload._generate_access.
_generate_access(methods, f) ==
    IF _overloaded(methods)
    THEN MOCK_OBJECT_NAME \o ".template " \o mangled_name(f)
             \o template(access_template_args(methods, f)) \o "()"
    ELSE MOCK_OBJECT_NAME \o "." \o mangled_name(f) \o "()"

\* str(type_).replace("...", ""): the ellipsis pieces are dropped.  (No
\* terminal spelling of the model contains an ellipsis.)
WithoutEllipsis(type_) ==
    LET NotEllipsis(piece) == piece # "..."
    IN  Join(SelectSeq(LayersPieces(type_.inner, type_.layers), NotEllipsis), "")

\* _unpack_and_move without the expansion of a parameter pack.
_unpack_and_move_unexpanded(name, type_) ==
    "std::forward<" \o WithoutEllipsis(type_) \o ">(" \o name \o ")"

\* overload._unpack_and_move.
_unpack_and_move(name, type_) ==
    "std::forward<" \o WithoutEllipsis(type_) \o ">(" \o name \o ")"
        \o Times(type_.layers[1].parameter_pack, "...")

\* generate_mock_implementations: ``dispatch_call`` of one method.
dispatch_call(methods, f) ==
    _generate_access(methods, f) \o ".call("
        \o Join([i \in 1..Len(f.params) |->
                    _unpack_and_move("a" \o ToString(i - 1), f.params[i])], ", ")
        \o ");"

\* Overload.generate_mock_implementations.
generate_mock_implementations(methods) ==
    [k \in 1..Len(methods) |->
        LET f == methods[k]
        IN  [f EXCEPT
               !.virtual = FALSE,
               !.pure_virtual = FALSE,
               !.override = TRUE,
               !.params = [i \in 1..Len(f.params) |->
                              Type__str__(f.params[i]) \o " a" \o ToString(i - 1)],
               !.body = IF f.return_type = Type("void", Naked)
                        THEN dispatch_call(methods, f)
                        ELSE "auto& result = *" \o dispatch_call(methods, f) \o "\n"
                             \o "return std::forward<" \o Type__str__(f.return_type)
                             \o ">(" \o MOVE_IF_NOT_COPY_CONSTRUCTIBLE \o "(result));",
               !.access = "public"]]

\* Overload.generate_set_parent.
generate_set_parent(methods) ==
    [k \in 1..Len(methods) |-> _generate_access(methods, methods[k]) \o ".parent(this);"]

(***************************************************************************)
(* generator.py.                                                           *)
(***************************************************************************)
\* Class(name) with the dataclass defaults.
Class(name) ==
    [name |-> name, enclosing_namespace |-> <<>>, members |-> <<>>,
     final |-> FALSE, q_object |-> FALSE, parent |-> "", template |-> <<>>]

\* types.Constructor(name, params, template, initializer_list, body).
Constructor(name, params, template_, initializer_list, body) ==
    [kind |-> "Constructor", name |-> name, params |-> params,
     template |-> template_, initializer_list |-> initializer_list,
     body |-> body, access |-> "public"]

FORWARDING_CTOR_TEMPLATE_PARAMS == "DRMOCK_FORWARDING_CTOR_TS"

_generate_mock_object_class_name(c) == MOCK_OBJECT_PREFIX \o c.name

RECURSIVE SplitAt(_, _)
\* str.split(sep) for a separator of several characters.
SplitAt(s, sep) ==
    LET p == find(s, sep)
    IN  IF p = 0 THEN <<s>>
        ELSE <<SubSeq(s, 1, p - 1)>> \o SplitAt(SubSeq(s, p + Len(sep), Len(s)), sep)

\* namespace.split("::"), each component as text.
NamespaceComponents(namespace) ==
    LET components == SplitAt(namespace, <<":", ":">>)
    IN  [i \in 1..Len(components) |-> Text(components[i])]

\* generator._generate_enclosing_namespace.  The namespace argument is a
\* sequence of characters.
_generate_enclosing_namespace(c, namespace) ==
    IF namespace = <<>> THEN c.enclosing_namespace
    ELSE IF Len(namespace) >= 2 /\ SubSeq(namespace, 1, 2) = <<":", ":">>
    THEN NamespaceComponents(namespace)
    ELSE c.enclosing_namespace \o NamespaceComponents(namespace)

_generate_mock_object_full_class_name(c, namespace) ==
    LET ns == _generate_enclosing_namespace(c, namespace)
    IN  Join([i \in 1..Len(ns) |-> ns[i] \o "::"], "")
            \o _generate_mock_object_class_name(c)
            \o (IF c.template # <<>> THEN template(get_args(c.template)) ELSE "")

\* The source class after _generate_mock_object: the type aliases it
\* returns are the member objects themselves, and their access is set.
PrivateAliases(c) ==
    [c EXCEPT !.members =
        [i \in 1..Len(c.members) |->
            IF c.members[i].kind = "TypeAlias"
            THEN [c.members[i] EXCEPT !.access = "private"]
            ELSE c.members[i]]]

\* mock_object_members with the getters placed before the dispatch methods.
mock_object_members_getters_first(c, access_, controller) ==
    LET overloads == get_overloads_of_class(c, access_)
        type_aliases == get_type_aliases(PrivateAliases(c))
        state_object == Variable(STATE_OBJECT_NAME,
                                 "std::shared_ptr<::drmock::StateObject>",
                                 <<"std::make_shared<::drmock::StateObject>()">>,
                                 FALSE, "private")
        shared_ptrs == Flatten([k \in 1..Len(overloads) |->
                                   generate_shared_ptrs(c, overloads[k])])
        method_collection ==
            Variable(controller, CONTROLLER_CPP_CLASS,
                     <<"{" \o Join([i \in 1..Len(shared_ptrs) |-> shared_ptrs[i].name], ", ")
                           \o "}",
                       STATE_OBJECT_NAME>>,
                     FALSE, "public")
    IN  type_aliases
        \o <<Friend(full_name(c), "private")>>
        \o <<state_object>>
        \o shared_ptrs
        \o <<method_collection>>
        \o [k \in 1..Len(overloads) |-> generate_getter(overloads[k])]
        \o Flatten([k \in 1..Len(overloads) |->
                       generate_dispatch_methods(overloads[k])])

\* _generate_mock_object: the member list of the result.
mock_object_members(c, access_, controller) ==
    LET overloads == get_overloads_of_class(c, access_)
        type_aliases == get_type_aliases(PrivateAliases(c))
        state_object == Variable(STATE_OBJECT_NAME,
                                 "std::shared_ptr<::drmock::StateObject>",
                                 <<"std::make_shared<::drmock::StateObject>()">>,
                                 FALSE, "private")
        shared_ptrs == Flatten([k \in 1..Len(overloads) |->
                                   generate_shared_ptrs(c, overloads[k])])
        method_collection ==
            Variable(controller, CONTROLLER_CPP_CLASS,
                     <<"{" \o Join([i \in 1..Len(shared_ptrs) |-> shared_ptrs[i].name], ", ")
                           \o "}",
                       STATE_OBJECT_NAME>>,
                     FALSE, "public")
    IN  type_aliases
        \o <<Friend(full_name(c), "private")>>
        \o <<state_object>>
        \o shared_ptrs
        \o <<method_collection>>
        \o Flatten([k \in 1..Len(overloads) |->
                       generate_dispatch_methods(overloads[k])])
        \o [k \in 1..Len(overloads) |-> generate_getter(overloads[k])]

\* generator._generate_mock_object.
_generate_mock_object(c, access_, namespace, controller) ==
    [Class(_generate_mock_object_class_name(c)) EXCEPT
        !.enclosing_namespace = _generate_enclosing_namespace(c, namespace),
        !.template = c.template,
        !.members = mock_object_members(c, access_, controller)]

\* generator._generate_mock_implementation.
_generate_mock_implementation(name, c, access_, namespace) ==
    LET overloads == get_overloads_of_class(c, access_)
        parent == full_name(c)
        default_ctor ==
            Constructor(name,
                        <<FORWARDING_CTOR_TEMPLATE_PARAMS \o "&&... ts">>,
                        <<TemplateParam(FORWARDING_CTOR_TEMPLATE_PARAMS, TRUE)>>,
                        <<parent \o "{" \o "std::forward<"
                              \o FORWARDING_CTOR_TEMPLATE_PARAMS \o ">(ts)..." \o "}">>,
                        Join(Flatten([k \in 1..Len(overloads) |->
                                         generate_set_parent(overloads[k])]), "\n"))
        mock_implementation_ ==
            Variable(MOCK_OBJECT_NAME,
                     _generate_mock_object_full_class_name(c, namespace),
                     <<>>, TRUE, "public")
    IN  [Class(name) EXCEPT
            !.enclosing_namespace = _generate_enclosing_namespace(c, namespace),
            !.template = c.template,
            !.q_object = c.q_object,
            !.parent = parent,
            !.members =
                get_type_aliases(c)
                \o <<default_ctor>>
                \o <<mock_implementation_>>
                \o Flatten([k \in 1..Len(overloads) |->
                               generate_mock_implementations(overloads[k])])]

(***************************************************************************)
(* The inputs the model draws from.                                        *)
(***************************************************************************)
T_void == Type("void", Naked)
T_int == Type("int", Naked)
\* const int &
T_const_int_ref ==
    Wrap(Type("int", [Naked EXCEPT !.const = TRUE]), [Naked EXCEPT !.lvalue_ref = TRUE])
\* Ts && ...
T_pack == Type("Ts", [Naked EXCEPT !.rvalue_ref = TRUE, !.parameter_pack = TRUE])

\* The (lvalue, rvalue) pairs of a C++ method: at most one ref-qualifier.
RefQualifiers == {<<FALSE, FALSE>>, <<TRUE, FALSE>>, <<FALSE, TRUE>>}

\* The signatures of one name that the overload engine is exercised with:
\* every combination of qualifiers, on a pure virtual method without
\* parameters, a noexcept method with parameters, and a protected method
\* with parameters that returns a reference.
OverloadMethods ==
    {Method(Name_f, sig[1], sig[2], c, v, lr[1], lr[2], TRUE, sig[3], sig[4], sig[5]) :
        sig \in {<<<<>>, T_void, TRUE, FALSE, "public">>,
                 <<<<T_const_int_ref, T_pack>>, T_void, FALSE, TRUE, "public">>,
                 <<<<T_const_int_ref, T_pack>>, T_const_int_ref, TRUE, FALSE, "protected">>},
        c \in BOOLEAN, v \in BOOLEAN, lr \in RefQualifiers}

\* The members the class assembly is exercised with: int f() and
\* void operator==(const int &, Ts && ...), each virtual and public, virtual,
\* protected, const and noexcept, or public and not virtual; and a type alias.
ClassMembers ==
    {Method(sig[1], sig[2], sig[3], va[3], FALSE, FALSE, FALSE, va[1], va[1], va[3], va[2]) :
        sig \in {<<Name_f, <<>>, T_int>>,
                 <<Name_operatorEq, <<T_const_int_ref, T_pack>>, T_void>>},
        va \in {<<TRUE, "public", FALSE>>, <<TRUE, "protected", TRUE>>,
                <<FALSE, "public", FALSE>>}}
    \cup {TypeAlias("Vec", "std::vector<int>", "public")}

\* The class before its members are read.
ClassHeads ==
    {[Class("Foo") EXCEPT !.enclosing_namespace = <<"ns">>]}

\* The --access argument: not given in the call, or a list.
AccessArguments == {<<>>, <<"protected">>, <<"public", "protected">>}

\* The flags of one layer: every combination of const, volatile, pointer
\* and pack with a reference marker (none, lvalue or rvalue).
LayerFlags ==
    {flags \in [const : BOOLEAN, volatile : BOOLEAN, lvalue_ref : BOOLEAN,
                rvalue_ref : BOOLEAN, pointer : BOOLEAN, parameter_pack : BOOLEAN] :
        ~(flags.lvalue_ref /\ flags.rvalue_ref)}

\* The flags of a layer below the two outer layers: at most one of them.
InnerLayerFlags ==
    {Naked,
     [Naked EXCEPT !.const = TRUE], [Naked EXCEPT !.volatile = TRUE],
     [Naked EXCEPT !.lvalue_ref = TRUE], [Naked EXCEPT !.pointer = TRUE],
     [Naked EXCEPT !.parameter_pack = TRUE]}

\* The terminal spellings of the Types the Type methods are called on,
\* and the number of words of each.
TerminalSpellings == {"T", "unsigned int"}

Words(spelling) == IF spelling = "T" THEN 1 ELSE 2

\* The tokens of the sequences Type.from_tokens is called on.
Tokens == {"const", "volatile", "...", "*", "&", "&&", "T", "unsigned"}

Name_operator == <<"o", "p", "e", "r", "a", "t", "o", "r">>

\* The method names to which one more operator symbol is appended: operator
\* followed by one up to MaxSymbols - 1 symbols of the operator table.
ShorterNames ==
    UNION {{Name_operator \o Flatten([i \in 1..n |-> _OPERATOR_SYMBOLS[symbols[i]][1]]) :
               symbols \in [1..n -> 1..Len(_OPERATOR_SYMBOLS)]} :
              n \in 1..(MaxSymbols - 1)}

Name_co_await == <<"c", "o", "_", "a", "w", "a", "i", "t">>

\* The pieces of which the identifiers of the model are made.
IdentifierPieces == {<<"f">>, <<"g">>, <<"_">>, Name_co_await}

\* The identifiers to which one more piece is appended: one up to
\* MaxSymbols - 1 pieces.
ShorterIdentifiers ==
    UNION {{Flatten(pieces) : pieces \in [1..n -> IdentifierPieces]} :
              n \in 1..(MaxSymbols - 1)}

\* Method.from_node: the name without "operator" is a key of the operator
\* table.
is_operator(name) ==
    \E i \in 1..Len(_OPERATOR_SYMBOLS) :
        replace(name, Name_operator, <<>>) = _OPERATOR_SYMBOLS[i][1]

\* The name of the mock implementation: utils.swap with the default patterns.
MockImplementationName(c) == "Mock" \o c.name

(***************************************************************************)
(* The state machine: the class model is read member by member, then the   *)
(* mock object and the mock implementation are generated from it.          *)
(***************************************************************************)
NoClass == Class("")

InitWith(accessArguments) ==
    /\ class_ \in ClassHeads
    /\ args \in [access : accessArguments, namespace : {<<>>}, controller : {"control"}]
    /\ pc = "from_node"
    /\ mock_object = NoClass
    /\ mock_implementation = NoClass
    /\ called = ""
    /\ self_ = <<>>
    /\ returned = <<>>

Init == InitWith(AccessArguments)

InitOverload == InitWith({<<>>, <<"public", "protected">>})

\* Class.from_node: one member is appended to the member list.
FromNodeMember(universe, max) ==
    /\ pc = "from_node"
    /\ Len(class_.members) < max
    /\ \E member \in universe :
          class_' = [class_ EXCEPT !.members = Append(@, member)]
    /\ UNCHANGED <<args, pc, mock_object, mock_implementation, called, self_, returned>>

\* _main_impl: mock_object = _generate_mock_object(...).
GenerateMockObject ==
    /\ pc = "from_node"
    /\ mock_object' = _generate_mock_object(class_, args.access, args.namespace,
                                            args.controller)
    /\ class_' = PrivateAliases(class_)
    /\ pc' = "mock_object"
    /\ UNCHANGED <<args, mock_implementation, called, self_, returned>>

\* _main_impl: mock_implementation = _generate_mock_implementation(...).
GenerateMockImplementation ==
    /\ pc = "mock_object"
    /\ mock_implementation' =
          _generate_mock_implementation(MockImplementationName(class_), class_,
                                        args.access, args.namespace)
    /\ pc' = "mock_implementation"
    /\ UNCHANGED <<class_, args, mock_object, called, self_, returned>>

Next ==
    \/ FromNodeMember(ClassMembers, MaxMembers)
    \/ GenerateMockObject
    \/ GenerateMockImplementation

Spec == Init /\ [][Next]_vars

NextOverload ==
    \/ FromNodeMember(OverloadMethods, MaxSignatures)
    \/ GenerateMockObject
    \/ GenerateMockImplementation

SpecOverload == InitOverload /\ [][NextOverload]_vars

(***************************************************************************)
(* The methods of Type, called on a Type or on a token sequence, and       *)
(* Method.mangled_name, called on a Method of a given name.                *)
(***************************************************************************)
\* No class is read or generated.
NoGenerator ==
    /\ class_ = NoClass
    /\ args = [access |-> <<>>, namespace |-> <<>>, controller |-> "control"]
    /\ mock_object = NoClass
    /\ mock_implementation = NoClass

InitType ==
    /\ NoGenerator
    /\ pc = "Type"
    /\ \/ /\ called = "Type"
          /\ \E spelling \in TerminalSpellings, flags \in LayerFlags :
                self_ = Type(spelling, flags)
       \/ /\ called = "tokens"
          /\ self_ = <<>>
    /\ returned = <<>>

\* Type(inner=Type(inner, ...), ...): one more layer around the terminal
\* spelling of a Type.
TypeInner ==
    /\ called = "Type"
    /\ Len(self_.layers) + Words(self_.inner) - 1 < MaxLayers
    /\ \E flags \in (IF Len(self_.layers) < 2 THEN LayerFlags ELSE InnerLayerFlags) :
          self_' = [self_ EXCEPT !.layers = Append(@, flags)]
    /\ UNCHANGED <<class_, args, pc, mock_object, mock_implementation, called, returned>>

\* One more token at the end of a token sequence.
TokensAppend ==
    /\ called = "tokens"
    /\ Len(self_) < MaxTokens
    /\ \E token \in Tokens : self_' = Append(self_, token)
    /\ UNCHANGED <<class_, args, pc, mock_object, mock_implementation, called, returned>>

\* self.get_decayed().
GetDecayed ==
    /\ called = "Type"
    /\ called' = "get_decayed"
    /\ returned' = get_decayed(self_)
    /\ UNCHANGED <<class_, args, pc, mock_object, mock_implementation, self_>>

\* self._get_simplified().
GetSimplified ==
    /\ called = "Type"
    /\ called' = "_get_simplified"
    /\ returned' = _get_simplified(self_)
    /\ UNCHANGED <<class_, args, pc, mock_object, mock_implementation, self_>>

\* str(self).
Str ==
    /\ called = "Type"
    /\ called' = "__str__"
    /\ returned' = StrChars(self_)
    /\ UNCHANGED <<class_, args, pc, mock_object, mock_implementation, self_>>

\* Type.from_spelling(str(self)).
FromSpelling ==
    /\ called = "__str__"
    /\ called' = "from_spelling"
    /\ returned' = from_spelling(returned)
    /\ UNCHANGED <<class_, args, pc, mock_object, mock_implementation, self_>>

\* Type.from_tokens(tokens).
FromTokens ==
    /\ called = "tokens"
    /\ called' = "from_tokens"
    /\ returned' = from_tokens(self_)
    /\ UNCHANGED <<class_, args, pc, mock_object, mock_implementation, self_>>

NextType ==
    \/ TypeInner
    \/ TokensAppend
    \/ GetDecayed
    \/ GetSimplified
    \/ Str
    \/ FromSpelling
    \/ FromTokens

SpecType == InitType /\ [][NextType]_vars

InitMangle ==
    /\ NoGenerator
    /\ pc = "Method"
    /\ called = "Method"
    /\ \/ \E i \in 1..Len(_OPERATOR_SYMBOLS) :
              self_ = Name_operator \o _OPERATOR_SYMBOLS[i][1]
       \/ self_ \in IdentifierPieces
    /\ returned = <<>>

\* One more operator symbol at the end of the name.
NameAppend ==
    /\ called = "Method"
    /\ self_ \in ShorterNames
    /\ \E i \in 1..Len(_OPERATOR_SYMBOLS) :
          self_' = self_ \o _OPERATOR_SYMBOLS[i][1]
    /\ UNCHANGED <<class_, args, pc, mock_object, mock_implementation, called, returned>>

\* One more piece at the end of an identifier.
IdentifierAppend ==
    /\ called = "Method"
    /\ self_ \in ShorterIdentifiers
    /\ \E piece \in IdentifierPieces : self_' = self_ \o piece
    /\ UNCHANGED <<class_, args, pc, mock_object, mock_implementation, called, returned>>

\* Method(name).mangled_name().
MangledName ==
    /\ called = "Method"
    /\ called' = "mangled_name"
    /\ returned' = mangle(self_)
    /\ UNCHANGED <<class_, args, pc, mock_object, mock_implementation, self_>>

NextMangle ==
    \/ NameAppend
    \/ IdentifierAppend
    \/ MangledName

SpecMangle == InitMangle /\ [][NextMangle]_vars

(***************************************************************************)
(* The command line entry point: commandline.main calls generator.main,    *)
(* which reads the header, hides the macros, extracts the class model,     *)
(* generates both classes and writes the header and the source text.       *)
(* A text is a sequence of pieces, each with the function that writes it.  *)
(***************************************************************************)
METHOD_CPP_CLASS == "::drmock::Method"
INCLUDE_GUARD_PREFIX == "DRMOCK_MOCK_IMPLEMENTATIONS"
DRMOCK_INCLUDE_PATH == "DrMock/"
MACRO_PREFIX == "DRMOCK_"

Piece(by, text) == [by |-> by, text |-> text]

\* TemplateDecl.__str__.
TemplateDecl__str__(params) ==
    "template<"
        \o Join([i \in 1..Len(params) |-> "typename " \o TemplateParamStr(params[i])], ", ")
        \o ">"

\* Class.__str__, the loop over the members: an access specifier is written
\* when the access differs from that of the member before ("private" at the
\* start), then the member.
MemberPieces_every_member(members) ==
    Flatten([i \in 1..Len(members) |->
        <<Piece("access", "\n" \o members[i].access \o ":\n"),
          Piece("member", members[i])>>])

MemberPieces(members) ==
    Flatten([i \in 1..Len(members) |->
        LET access == IF i = 1 THEN "private" ELSE members[i - 1].access
        IN  (IF access # members[i].access
             THEN <<Piece("access", "\n" \o members[i].access \o ":\n")>>
             ELSE <<>>)
            \o <<Piece("member", members[i])>>])

\* Class.__str__: the namespace openings (joined by " ") and the closing
\* braces are one piece each, a member piece is the member (written as
\* utils.indent(str(member)) and a line end).
Class__str__(c) ==
    LET namespace == c.enclosing_namespace
    IN  [i \in 1..Len(namespace) |->
            Piece("namespace", "namespace " \o namespace[i] \o " {")]
        \o (IF namespace # <<>> THEN <<Piece("text", "\n\n")>> ELSE <<>>)
        \o (IF c.template # <<>>
            THEN <<Piece("template", TemplateDecl__str__(c.template) \o "\n")>>
            ELSE <<>>)
        \o <<Piece("class", "class " \o c.name \o Times(c.final, " final")
                            \o (IF c.parent # "" THEN " : public " \o c.parent ELSE "")
                            \o "\n{\n")>>
        \o (IF c.q_object THEN <<Piece("q_object", "  Q_OBJECT\n\n")>> ELSE <<>>)
        \o MemberPieces(c.members)
        \o <<Piece("end", "};")>>
        \o (IF namespace # <<>> THEN <<Piece("text", "\n\n")>> ELSE <<>>)
        \o [i \in 1..Len(namespace) |-> Piece("close", "}")]
        \o (IF namespace # <<>>
            THEN <<Piece("comment", " // namespace " \o Join(namespace, "::"))>>
            ELSE <<>>)

\* Class.explicit_instantiation_allowed.
explicit_instantiation_allowed(c) ==
    c.template = <<>> /\ get_type_aliases(c) = <<>>

RECURSIVE filter_duplicates_keep_all(_)
filter_duplicates_keep_all(it) ==
    IF it = <<>> THEN <<>>
    ELSE Append(filter_duplicates_keep_all(SubSeq(it, 1, Len(it) - 1)), it[Len(it)])

RECURSIVE filter_duplicates(_)
\* utils.filter_duplicates: list(dict.fromkeys(it)).
filter_duplicates(it) ==
    IF it = <<>> THEN <<>>
    ELSE LET before == SubSeq(it, 1, Len(it) - 1)
             last == it[Len(it)]
         IN  IF \E i \in 1..Len(before) : before[i] = last
             THEN filter_duplicates(before)
             ELSE Append(filter_duplicates(before), last)

\* generator._generate_method_template.
_generate_method_template(parent, method) ==
    LET decayed_signature ==
            <<Type__str__(method.return_type)>>
                \o [i \in 1..Len(method.params) |->
                        Type__str__(get_decayed(method.params[i]))]
    IN  METHOD_CPP_CLASS \o "<" \o parent \o ", " \o Join(decayed_signature, ", ") \o ">"

\* The method templates of _generate_header and of _generate_source.
method_templates(c) ==
    LET virtual == get_virtual_methods(c)
    IN  filter_duplicates([i \in 1..Len(virtual) |->
                               _generate_method_template(full_name(c), virtual[i])])

_explicit_instantiation_decl(expr) == "extern template class " \o expr \o ";"
_explicit_instantiation_definition(expr) == "template class " \o expr \o ";"

_include_angled_brackets(file) == "#include <" \o file \o ">\n"
_include_quotes(file) == "#include \"" \o file \o "\"\n"
_include_guard_macro(name) == INCLUDE_GUARD_PREFIX \o name
_include_guard_open(name) ==
    "#ifndef " \o _include_guard_macro(name) \o "\n"
        \o "#define " \o _include_guard_macro(name) \o "\n"
_include_guard_close(name) == "#endif /* " \o _include_guard_macro(name) \o " */"

\* os.path.abspath of a relative path.
abspath(path) == "/cwd/" \o path

\* generator._generate_header.
_generate_header_always_declared(c, mock_object_, mock_implementation_, input_path) ==
    LET templates == method_templates(c)
    IN  <<Piece("_include_guard_open", _include_guard_open(c.name)),
          Piece("text", "\n#define DRMOCK\n"),
          Piece("_include_angled_brackets",
                _include_angled_brackets(DRMOCK_INCLUDE_PATH \o "Mock.h")),
          Piece("_include_quotes", _include_quotes(abspath(input_path))),
          Piece("text", "\n")>>
        \o [i \in 1..Len(templates) |->
               Piece("_explicit_instantiation_decl",
                      _explicit_instantiation_decl(templates[i]))]
        \o <<Piece("text", "\n")>>
        \o <<Piece("mock_object", Class__str__(mock_object_)),
             Piece("text", "\n\n"),
             Piece("mock_implementation", Class__str__(mock_implementation_)),
             Piece("text", "\n\n"),
             Piece("_include_guard_close", _include_guard_close(c.name))>>

_generate_header(c, mock_object_, mock_implementation_, input_path) ==
    LET templates == method_templates(c)
    IN  <<Piece("_include_guard_open", _include_guard_open(c.name)),
          Piece("text", "\n#define DRMOCK\n"),
          Piece("_include_angled_brackets",
                _include_angled_brackets(DRMOCK_INCLUDE_PATH \o "Mock.h")),
          Piece("_include_quotes", _include_quotes(abspath(input_path))),
          Piece("text", "\n")>>
        \o (IF explicit_instantiation_allowed(c)
            THEN [i \in 1..Len(templates) |->
                     Piece("_explicit_instantiation_decl",
                            _explicit_instantiation_decl(templates[i]))]
                 \o <<Piece("text", "\n")>>
            ELSE <<>>)
        \o <<Piece("mock_object", Class__str__(mock_object_)),
             Piece("text", "\n\n"),
             Piece("mock_implementation", Class__str__(mock_implementation_)),
             Piece("text", "\n\n"),
             Piece("_include_guard_close", _include_guard_close(c.name))>>

\* generator._generate_source.
_generate_source(c, header_path) ==
    LET templates == method_templates(c)
    IN  IF explicit_instantiation_allowed(c)
        THEN <<Piece("_include_quotes", _include_quotes(header_path)),
               Piece("text", "\n")>>
             \o [i \in 1..Len(templates) |->
                    Piece("_explicit_instantiation_definition",
                           _explicit_instantiation_definition(templates[i]))]
        ELSE <<Piece("text", "// This source file is intentionally left blank")>>

\* generator._hide_macros_from_preprocessor on the tokens of the header:
\* source.replace(each, "#undef each\nint MACRO_PREFIX each;").
_hide_macros_from_preprocessor(source, macros) ==
    Flatten([i \in 1..Len(source) |->
        IF source[i] \in macros
        THEN <<"#undef", source[i], "\n", "int", MACRO_PREFIX \o source[i], ";">>
        ELSE <<source[i]>>])

RECURSIVE field_declarations(_)
\* The FIELD_DECL children of the class node with their tokens, as the
\* translator hands them over: a directive ends at the line end, a
\* declaration at its semicolon.
field_declarations(source) ==
    IF source = <<>> THEN <<>>
    ELSE LET stop == IF Head(source) = "#undef" THEN "\n" ELSE ";"
             end == CHOOSE i \in 1..Len(source) :
                        /\ source[i] = stop
                        /\ \A j \in 1..(i - 1) : source[j] # stop
             rest == field_declarations(SubSeq(source, end + 1, Len(source)))
         IN  IF Head(source) = "#undef" THEN rest
             ELSE <<SubSeq(source, 1, end - 1)>> \o rest

\* Class.from_node, the FIELD_DECL branch: the type is popped from the
\* tokens, the last of the others is the variable (None if there is none);
\* the variable Q_OBJECT sets the flag, and no field becomes a member.
from_node_q_object(children) ==
    \E i \in 1..Len(children) :
        LET tokens == Tail(children[i])
            var == IF tokens # <<>> THEN tokens[Len(tokens)] ELSE "None"
        IN  var = "Q_OBJECT"

\* The end of the process: the exception that ended it ("" for none), the
\* exit code, the text on stderr, and the texts written to the files.
Exit(raised, code, stderr, header, source) ==
    [raised |-> raised, code |-> code, stderr |-> stderr,
     header |-> header, source |-> source]

\* commandline.main: DrMockRuntimeError is caught, reported and exits 1.
Reported_unprefixed(message) ==
    Exit("DrMockRuntimeError", 1, <<message, "\n\n">>, <<>>, <<>>)

Reported(message) ==
    Exit("DrMockRuntimeError", 1,
         <<"drmock-generator: error: ", message, "\n\n">>, <<>>, <<>>)

\* Another exception leaves commandline.main: the interpreter prints the
\* traceback and exits 1.
Traceback(raised) ==
    Exit(raised, 1, <<"Traceback (most recent call last):\n", raised>>, <<>>, <<>>)

\* The headers: the class body, apart from its methods and aliases, as
\* tokens (old_header is the text after the macros are hidden); whether the
\* class is a template; its enclosing namespace.
HeaderBodies == {<<>>, <<"Q_OBJECT">>, <<"int", "x", ";">>}
HeaderNamespaces == {<<>>, <<"ns">>}
InputPath == "Foo.h"
OutputPath == "FooMock.h"

\* The values of --namespace.
Namespaces ==
    {<<>>, <<"a">>, <<":", ":", "a">>, <<":", ":", "a", ":", ":", "b">>}

\* The members of the classes of the headers: two virtual methods of the
\* same decayed signature, a third of another, and an alias.
Method_f_int ==
    Method(Name_f, <<T_int>>, T_void, FALSE, FALSE, FALSE, FALSE, TRUE, TRUE, FALSE, "public")
Method_f_ref ==
    Method(Name_f, <<T_const_int_ref>>, T_void, TRUE, FALSE, FALSE, FALSE, TRUE, TRUE, FALSE, "public")
Method_f ==
    Method(Name_f, <<>>, T_int, FALSE, FALSE, FALSE, FALSE, TRUE, TRUE, FALSE, "protected")
MainMembers ==
    {Method_f_int, Method_f_ref, Method_f, TypeAlias("Vec", "std::vector<int>", "public")}

InitMain ==
    /\ class_ = NoClass
    /\ args \in [access : {<<>>}, namespace : Namespaces, controller : {"control"}]
    /\ pc = "main"
    /\ mock_object = NoClass
    /\ mock_implementation = NoClass
    /\ called = "main"
    /\ self_ \in [header : HeaderBodies, old_header : {<<>>}, template : BOOLEAN,
                  enclosing_namespace : HeaderNamespaces]
    /\ returned = <<>>

\* commandline.main: parse_args exits 2 on malformed arguments.
ParseArgs ==
    /\ pc = "main"
    /\ \/ /\ pc' = "exit"
          /\ returned' = Exit("SystemExit", 2, <<"usage: ">>, <<>>, <<>>)
       \/ /\ pc' = "generator.main"
          /\ UNCHANGED returned
    /\ UNCHANGED <<class_, args, mock_object, mock_implementation, called, self_>>

\* generator.main: the header is read and the macros are hidden.
ReadHeader ==
    /\ pc = "generator.main"
    /\ \/ /\ pc' = "exit"
          /\ returned' = Reported("FileNotFoundError")
          /\ UNCHANGED self_
       \/ /\ pc' = "_main_impl"
          /\ self_' = [self_ EXCEPT
                          !.old_header =
                              _hide_macros_from_preprocessor(self_.header, {"Q_OBJECT"})]
          /\ UNCHANGED returned
    /\ UNCHANGED <<class_, args, mock_object, mock_implementation, called>>

\* _main_impl up to the head of the class model: the library is set, the
\* header is translated, the class is found, Class.from_node reads it.
Translate ==
    /\ pc = "_main_impl"
    /\ \/ /\ pc' = "exit"
          /\ \E message \in {"clang library file path not set", "Clang failed",
                             "No class matching"} :
                returned' = Reported(message)
          /\ UNCHANGED class_
       \/ /\ pc' = "exit"
          /\ \E raised \in {"LibclangError", "AttributeError"} :
                returned' = Traceback(raised)
          /\ UNCHANGED class_
       \/ /\ pc' = "from_node"
          /\ class_' = [Class("Foo") EXCEPT
                !.enclosing_namespace = self_.enclosing_namespace,
                !.template = IF self_.template
                             THEN <<TemplateParam("T", FALSE)>> ELSE <<>>,
                !.q_object = from_node_q_object(field_declarations(self_.old_header))]
          /\ UNCHANGED returned
    /\ UNCHANGED <<args, mock_object, mock_implementation, called, self_>>

\* generator.main: both texts are generated and written to the files.
WriteFiles ==
    /\ pc = "mock_implementation"
    /\ pc' = "exit"
    /\ \/ returned' = Reported("IOError")
       \/ returned' = Exit("", 0, <<>>,
                           _generate_header(class_, mock_object, mock_implementation,
                                            InputPath),
                           _generate_source(class_, OutputPath))
    /\ UNCHANGED <<class_, args, mock_object, mock_implementation, called, self_>>

NextMain ==
    \/ ParseArgs
    \/ ReadHeader
    \/ Translate
    \/ FromNodeMember(MainMembers, MaxMembers)
    \/ GenerateMockObject
    \/ GenerateMockImplementation
    \/ WriteFiles

SpecMain == InitMain /\ [][NextMain]_vars
(***************************************************************************)
(* Reading the generated classes.                                          *)
(***************************************************************************)
\* Both classes have been generated.
Generated == pc = "mock_implementation"

\* The overloads of the source class, as grouped for both classes.
Overloads == get_overloads_of_class(class_, args.access)

\* The getters, dispatch methods and storage declarations of the mock
\* object and the overrides of the mock implementation, in member order.
Getters ==
    LET IsGetter(m) == m.kind = "Method" /\ m.access = "public"
    IN  SelectSeq(mock_object.members, IsGetter)

DispatchMethods ==
    LET IsDispatch(m) == m.kind = "Method" /\ m.access = "private"
    IN  SelectSeq(mock_object.members, IsDispatch)

Storage ==
    LET IsStorage(m) ==
            m.kind = "Variable" /\ m.name \notin {STATE_OBJECT_NAME, args.controller}
    IN  SelectSeq(mock_object.members, IsStorage)

Overrides ==
    LET IsMethod(m) == m.kind = "Method"
    IN  SelectSeq(mock_implementation.members, IsMethod)

ForwardingConstructor ==
    LET IsConstructor(m) == m.kind = "Constructor"
    IN  SelectSeq(mock_implementation.members, IsConstructor)

RECURSIVE Before(_)
\* The number of signatures in the overloads before the k-th.
Before(k) == IF k = 1 THEN 0 ELSE Before(k - 1) + Len(Overloads[k - 1])

\* The position of the i-th signature of the k-th overload among all
\* signatures.
Pos(k, i) == Before(k) + i

\* Every (some) signature of every (some) overload satisfies P(k, i): the
\* i-th signature of the k-th overload.
EverySignature(P(_, _)) ==
    \A k \in 1..Len(Overloads) : \A i \in 1..Len(Overloads[k]) : P(k, i)

SomeSignature(P(_, _)) ==
    \E k \in 1..Len(Overloads) : \E i \in 1..Len(Overloads[k]) : P(k, i)

\* The marker of each qualifier set on f, in the order const, volatile,
\* lvalue, rvalue.
MarkersOf(f) ==
    LET IsSet(marker) ==
            \/ marker = CONST_ENUM /\ f.const
            \/ marker = VOLATILE_ENUM /\ f.volatile
            \/ marker = LVALUE_ENUM /\ f.lvalue
            \/ marker = RVALUE_ENUM /\ f.rvalue
    IN  SelectSeq(<<CONST_ENUM, VOLATILE_ENUM, LVALUE_ENUM, RVALUE_ENUM>>, IsSet)

\* The members' parameter lists are all identical.
UniformParams(methods) ==
    \A i, j \in 1..Len(methods) : methods[i].params = methods[j].params

\* The members' (const, lvalue, rvalue) triples are all identical.
UniformTriples(methods) ==
    \A i, j \in 1..Len(methods) :
        /\ methods[i].const = methods[j].const
        /\ methods[i].lvalue = methods[j].lvalue
        /\ methods[i].rvalue = methods[j].rvalue

\* The members' qualifier sets are all identical.
UniformQualifierSets(methods) ==
    \A i, j \in 1..Len(methods) : MarkersOf(methods[i]) = MarkersOf(methods[j])

\* The text of a type-container with the given argument list.
Container(arguments) == TYPE_CONTAINER \o "<" \o Join(arguments, ", ") \o ">"

\* The argument list of a getter's type-container after the variadic pack
\* is instantiated with the supplied template arguments.
Instantiate(dispatch, supplied) ==
    Flatten([i \in 1..Len(dispatch) |->
                IF dispatch[i] = "DRMOCK_Ts ..." THEN supplied ELSE <<dispatch[i]>>])

(***************************************************************************)
(* C1.  For every signature f of every overload: the getter instantiated   *)
(* with the template arguments that f's access expression supplies (none   *)
(* when the getter is not a template) passes the type-container that is    *)
(* the key of f's own dispatch method.                                     *)
(***************************************************************************)
C1_GetterReachesDispatch ==
    Generated =>
        LET Reaches(k, i) ==
                LET methods == Overloads[k]
                    supplied == IF Getters[k].template = <<>> THEN <<>>
                                ELSE access_template_args(methods, methods[i])
                IN  Container(Instantiate(getter_dispatch(methods), supplied))
                        = DispatchMethods[Pos(k, i)].params[1].inner
        IN  EverySignature(Reaches)

\* The argument a parameter of the given name and type is forwarded as.
Forwarded(name, type_) ==
    IF type_.layers[1].parameter_pack
    THEN "std::forward<"
             \o Type__str__([type_ EXCEPT !.layers[1].parameter_pack = FALSE])
             \o " >(" \o name \o ")..."
    ELSE "std::forward<" \o Type__str__(type_) \o ">(" \o name \o ")"

\* The call of the storage of f, with every parameter forwarded.
CallText(f) ==
    ".call("
        \o Join([i \in 1..Len(f.params) |->
                    Forwarded("a" \o ToString(i - 1), f.params[i])], ", ")
        \o ");"

\* The access expression of the i-th signature of the k-th overload: the
\* parameter types are supplied unless all members have the same, the
\* markers of the signature unless all members agree in const, lvalue and
\* rvalue.
AccessExpression(k, i) ==
    LET methods == Overloads[k]
        f == methods[i]
        arguments ==
            (IF ~UniformParams(methods) THEN Strs(f.params) ELSE <<>>)
            \o (IF ~UniformTriples(methods) THEN MarkersOf(f) ELSE <<>>)
    IN  IF Len(methods) = 1
        THEN "mock." \o mangled_name(f) \o "()"
        ELSE "mock.template " \o mangled_name(f) \o "<" \o Join(arguments, ", ") \o ">()"

\* The body of the override of f for a given access expression.
BodyOf(expression, f) ==
    IF f.return_type = Type("void", Naked)
    THEN expression \o CallText(f)
    ELSE "auto& result = *" \o expression \o CallText(f) \o "\n"
         \o "return std::forward<" \o Type__str__(f.return_type) \o ">("
         \o MOVE_IF_NOT_COPY_CONSTRUCTIBLE \o "(result));"

(***************************************************************************)
(* C2.  The access expression of the override body and of the              *)
(* bind-to-parent statement of a signature f are the same expression:      *)
(* mock.<mangled name>() if the overload has one member; otherwise         *)
(* mock.template <mangled name><args>() where args is f's parameter types  *)
(* iff the members' parameter lists are not all identical, followed by the *)
(* markers of f's qualifiers iff the members' qualifier sets are not all   *)
(* identical.                                                              *)
(***************************************************************************)
C2_AccessPolicy ==
    Generated =>
        LET Expression(k, i) ==
                LET methods == Overloads[k]
                    f == methods[i]
                    arguments ==
                        (IF ~UniformParams(methods) THEN Strs(f.params) ELSE <<>>)
                        \o (IF ~UniformQualifierSets(methods) THEN MarkersOf(f) ELSE <<>>)
                IN  IF Len(methods) = 1
                    THEN "mock." \o mangled_name(f) \o "()"
                    ELSE "mock.template " \o mangled_name(f)
                             \o "<" \o Join(arguments, ", ") \o ">()"
            InBody(k, i) ==
                Overrides[Pos(k, i)].body = BodyOf(Expression(k, i), Overloads[k][i])
            statements ==
                Flatten([k \in 1..Len(Overloads) |->
                            [i \in 1..Len(Overloads[k]) |->
                                Expression(k, i) \o ".parent(this);"]])
        IN  /\ EverySignature(InBody)
            /\ ForwardingConstructor[1].body = Join(statements, "\n")

(***************************************************************************)
(* C3.  The getter calls the dispatch function with a type-container whose *)
(* arguments are: the shared parameter types if all members have identical *)
(* parameter lists; then the variadic pack if the overload has more than   *)
(* one member; then, only if all members have the same (const, lvalue,     *)
(* rvalue) triple, the const, lvalue and rvalue markers of the qualifiers  *)
(* the members carry.                                                      *)
(***************************************************************************)
C3_GetterKey ==
    Generated =>
        \A k \in 1..Len(Overloads) :
            LET methods == Overloads[k]
                f == methods[1]
                shared == IF UniformParams(methods) THEN Strs(f.params) ELSE <<>>
                pack == IF Len(methods) > 1 THEN <<"DRMOCK_Ts ...">> ELSE <<>>
                markers ==
                    IF UniformTriples(methods)
                    THEN (IF f.const THEN <<CONST_ENUM>> ELSE <<>>)
                         \o (IF f.lvalue THEN <<LVALUE_ENUM>> ELSE <<>>)
                         \o (IF f.rvalue THEN <<RVALUE_ENUM>> ELSE <<>>)
                    ELSE <<>>
            IN  Getters[k].body =
                    "return " \o DISPATCH_PREFIX \o mangled_name(f) \o "("
                        \o Container(shared \o pack \o markers) \o "{});"

\* An overload of two members that are both const and rvalue-qualified and
\* differ in their parameters has been given its getter.
C3_Witness ==
    /\ Generated
    /\ Len(Overloads) = 1
    /\ Len(Overloads[1]) = 2
    /\ Overloads[1][1].const /\ Overloads[1][2].const
    /\ Overloads[1][1].rvalue /\ Overloads[1][2].rvalue
    /\ Overloads[1][1].params # Overloads[1][2].params
    /\ Len(Getters) = 1

(***************************************************************************)
(* C4.  The key of each signature's dispatch method lists the signature's  *)
(* parameter types in declaration order, then one marker for each          *)
(* qualifier set on the signature, in the order const, volatile, lvalue,   *)
(* rvalue; the dispatch method is private and named with the dispatch      *)
(* prefix plus the mangled name.                                           *)
(***************************************************************************)
C4_DispatchKey ==
    Generated =>
        LET Keyed(k, i) ==
                LET f == Overloads[k][i]
                    dispatch == DispatchMethods[Pos(k, i)]
                IN  /\ dispatch.params =
                           <<Type(Container(Strs(f.params) \o MarkersOf(f)), Naked)>>
                    /\ dispatch.access = "private"
                    /\ dispatch.name = DISPATCH_PREFIX \o mangled_name(f)
        IN  /\ Len(DispatchMethods) = Len(Flatten(Overloads))
            /\ EverySignature(Keyed)

\* A const volatile rvalue-qualified signature with parameters has been
\* given its dispatch method.
C4_Witness ==
    /\ Generated
    /\ LET Full(k, i) ==
               LET f == Overloads[k][i]
               IN  /\ f.const /\ f.volatile /\ f.rvalue
                   /\ f.params # <<>>
                   /\ Pos(k, i) <= Len(DispatchMethods)
       IN  SomeSignature(Full)

(***************************************************************************)
(* C5 as stated.  The parameter types in a signature's dispatch-method key *)
(* are the signature's decayed parameter types.                            *)
(***************************************************************************)
C5_DecayedKey ==
    Generated =>
        LET Decayed(k, i) ==
                LET f == Overloads[k][i]
                    decayed == [j \in 1..Len(f.params) |->
                                   Type__str__(get_decayed(f.params[j]))]
                IN  DispatchMethods[Pos(k, i)].params[1].inner
                        = Container(decayed \o MarkersOf(f))
        IN  EverySignature(Decayed)

(***************************************************************************)
(* C5, amended.  The parameter types in a signature's dispatch-method key  *)
(* are the signature's parameter types as declared; the decayed parameter  *)
(* types parameterize the signature's storage declaration only.            *)
(***************************************************************************)
C5_DeclaredKey ==
    Generated =>
        LET Declared(k, i) ==
                LET f == Overloads[k][i]
                    decayed == [j \in 1..Len(f.params) |->
                                   Type__str__(get_decayed(f.params[j]))]
                IN  /\ DispatchMethods[Pos(k, i)].params[1].inner
                           = Container(Strs(f.params) \o MarkersOf(f))
                    /\ Storage[Pos(k, i)].type
                           = "std::shared_ptr<::drmock::Method<"
                                 \o Join(<<full_name(class_), Type__str__(f.return_type)>>
                                             \o decayed, ", ")
                                 \o ">>"
        IN  EverySignature(Declared)

\* A signature with a parameter that decay changes has been given its
\* dispatch method and its storage declaration.
C5_Witness ==
    /\ Generated
    /\ LET Changes(k, i) ==
               LET f == Overloads[k][i]
               IN  /\ \E j \in 1..Len(f.params) :
                          Type__str__(get_decayed(f.params[j])) # Type__str__(f.params[j])
                   /\ Pos(k, i) <= Len(DispatchMethods)
                   /\ Pos(k, i) <= Len(Storage)
       IN  SomeSignature(Changes)

\* Two members that differ only in their const qualifier.
DifferOnlyByConst(methods) ==
    /\ Len(methods) = 2
    /\ methods[1].const # methods[2].const
    /\ methods[1] = [methods[2] EXCEPT !.const = methods[1].const]

(***************************************************************************)
(* C6 as stated.  When all members have identical parameter lists the      *)
(* getter declares no template parameter; for two methods that differ only *)
(* by const it takes no template parameter and appends no marker.          *)
(***************************************************************************)
C6_NoTemplateParameter ==
    Generated =>
        \A k \in 1..Len(Overloads) :
            LET methods == Overloads[k]
            IN  UniformParams(methods) =>
                    /\ Getters[k].template = <<>>
                    /\ DifferOnlyByConst(methods) =>
                           Getters[k].body =
                               "return " \o DISPATCH_PREFIX \o mangled_name(methods[1])
                                   \o "(" \o Container(Strs(methods[1].params)) \o "{});"

\* The lists that can follow the parameter types in a getter's container.
GetterTails ==
    {pack \o c \o l \o r :
        pack \in {<<>>, <<"DRMOCK_Ts ...">>}, c \in {<<>>, <<CONST_ENUM>>},
        l \in {<<>>, <<LVALUE_ENUM>>}, r \in {<<>>, <<RVALUE_ENUM>>}}

(***************************************************************************)
(* C6, amended.  When all members have identical parameter lists the       *)
(* getter passes the parameter types positionally, first in the            *)
(* type-container; it declares no template parameter only if the overload  *)
(* has a single member and the variadic pack otherwise.  For two methods    *)
(* that differ only by const the getter declares the variadic pack, passes *)
(* it after the parameter types and appends no qualifier marker.           *)
(***************************************************************************)
C6_UniformParamsGetter ==
    Generated =>
        \A k \in 1..Len(Overloads) :
            LET methods == Overloads[k]
                call(arguments) ==
                    "return " \o DISPATCH_PREFIX \o mangled_name(methods[1])
                        \o "(" \o Container(arguments) \o "{});"
            IN  UniformParams(methods) =>
                    /\ \E tail \in GetterTails :
                           Getters[k].body = call(Strs(methods[1].params) \o tail)
                    /\ Getters[k].template =
                           (IF Len(methods) = 1 THEN <<>>
                            ELSE <<TemplateParam("DRMOCK_Ts", TRUE)>>)
                    /\ DifferOnlyByConst(methods) =>
                           Getters[k].body =
                               call(Strs(methods[1].params) \o <<"DRMOCK_Ts ...">>)

\* Two methods with parameters that differ only by const have been given
\* their getter.
C6_Witness ==
    /\ Generated
    /\ \E k \in 1..Len(Overloads) :
          /\ DifferOnlyByConst(Overloads[k])
          /\ Overloads[k][1].params # <<>>
          /\ k <= Len(Getters)

(***************************************************************************)
(* C7.  For every overload with n members there are exactly one getter, n  *)
(* dispatch methods, n storage declarations, n overrides and n             *)
(* bind-to-parent statements, all in member order; the i-th dispatch       *)
(* method returns the i-th storage declaration of its overload; storage    *)
(* names are pairwise distinct across all overloads of the class; and the  *)
(* getter declares a variadic template parameter only when n > 1.          *)
(***************************************************************************)
C7_OnePerSignature ==
    Generated =>
        LET signatures == Flatten(Overloads)
            InOrder(k, i) ==
                LET f == Overloads[k][i]
                    p == Pos(k, i)
                IN  /\ DispatchMethods[p].name = DISPATCH_PREFIX \o mangled_name(f)
                    /\ DispatchMethods[p].params =
                           <<Type(Container(Strs(f.params) \o MarkersOf(f)), Naked)>>
                    /\ DispatchMethods[p].body = "return *" \o Storage[p].name \o ";"
                    /\ Storage[p].name =
                           SHARED_PTR_PREFIX \o mangled_name(f) \o "_" \o ToString(i - 1)
                    /\ Overrides[p].name = f.name
                    /\ Len(Overrides[p].params) = Len(f.params)
                    /\ Overrides[p].const = f.const
            statements ==
                Flatten([k \in 1..Len(Overloads) |->
                            [i \in 1..Len(Overloads[k]) |->
                                AccessExpression(k, i) \o ".parent(this);"]])
        IN  /\ Len(Getters) = Len(Overloads)
            /\ Len(DispatchMethods) = Len(signatures)
            /\ Len(Storage) = Len(signatures)
            /\ Len(Overrides) = Len(signatures)
            /\ Len(statements) = Len(signatures)
            /\ ForwardingConstructor[1].body = Join(statements, "\n")
            /\ EverySignature(InOrder)
            /\ \A p, q \in 1..Len(Storage) :
                   p # q => Storage[p].name # Storage[q].name
            /\ \A k \in 1..Len(Overloads) :
                   /\ Len(Overloads[k]) >= 1
                   /\ Getters[k].name = mangled_name(Overloads[k][1])
                   /\ Getters[k].template # <<>> <=> Len(Overloads[k]) > 1
                   /\ Getters[k].template # <<>> =>
                          Getters[k].template = <<TemplateParam("DRMOCK_Ts", TRUE)>>

\* A class with an overload of two members and an overload of one member
\* has been given its mock object and its mock implementation.
C7_Witness ==
    /\ Generated
    /\ \E k, l \in 1..Len(Overloads) :
          /\ Len(Overloads[k]) = 2
          /\ Len(Overloads[l]) = 1
    /\ Len(Storage) = 3
    /\ Len(Getters) = 2

\* The state object declarations among the members of the mock object.
StateObjects ==
    LET IsStateObject(m) == m.kind = "Variable" /\ m.name = STATE_OBJECT_NAME
    IN  SelectSeq(mock_object.members, IsStateObject)

Section(m) ==
    CASE m.kind = "TypeAlias" -> 1
      [] m.kind = "Friend" -> 2
      [] m.kind = "Variable" /\ m.name = STATE_OBJECT_NAME -> 3
      [] m.kind = "Variable" /\ m.name = args.controller -> 5
      [] m.kind = "Variable" -> 4
      [] m.kind = "Method" /\ m.access = "private" -> 6
      [] m.kind = "Method" -> 7
      [] OTHER -> 0

(***************************************************************************)
(* C9.  In the member list of the mock object the sections appear in the   *)
(* order: type aliases, friend declaration, state object, all storage      *)
(* declarations, controller, all dispatch methods, all getters.  The       *)
(* controller is initialized from the storage names and the state object.  *)
(***************************************************************************)
C9_SectionOrder ==
    Generated =>
        LET members == mock_object.members
            OfSection(s) == {p \in 1..Len(members) : Section(members[p]) = s}
        IN  /\ \A p, q \in 1..Len(members) :
                   p < q => Section(members[p]) <= Section(members[q])
            /\ \A p \in 1..Len(members) : Section(members[p]) # 0
            /\ Cardinality(OfSection(1)) = Len(get_type_aliases(class_))
            /\ Cardinality(OfSection(2)) = 1
            /\ Cardinality(OfSection(3)) = 1
            /\ Cardinality(OfSection(4)) = Len(Flatten(Overloads))
            /\ Cardinality(OfSection(5)) = 1
            /\ Cardinality(OfSection(6)) = Len(Flatten(Overloads))
            /\ Cardinality(OfSection(7)) = Len(Overloads)
            /\ \A p \in OfSection(5) :
                   members[p].default_args =
                       <<"{" \o Join([q \in 1..Len(Storage) |-> Storage[q].name], ", ")
                             \o "}",
                         STATE_OBJECT_NAME>>

\* A mock object with a type alias, two storage declarations, two dispatch
\* methods and a getter has been generated.
C9_Witness ==
    /\ Generated
    /\ \E p \in 1..Len(mock_object.members) : mock_object.members[p].kind = "TypeAlias"
    /\ Len(Storage) = 2
    /\ Len(DispatchMethods) = 2
    /\ Len(Getters) >= 1

AllowedAccess ==
    IF args.access = <<>> THEN {"public"}
    ELSE {args.access[i] : i \in 1..Len(args.access)}

\* The signatures of the source class that pass the filter, in input order.
Filtered ==
    LET Passes(m) == m.kind = "Method" /\ m.virtual /\ m.access \in AllowedAccess
    IN  SelectSeq(class_.members, Passes)

(***************************************************************************)
(* C11.  Grouping is a stable partition: every signature that passes the   *)
(* filter is in exactly one group, no group is empty, the members of a     *)
(* group are the signatures of one mangled name in their input order, no   *)
(* two groups share a mangled name, and the groups (and the getters made   *)
(* from them) are in the order in which their mangled name first occurs.   *)
(***************************************************************************)
C11_StablePartition ==
    Generated =>
        LET Key(k) == mangled_name(Overloads[k][1])
            First(key) ==
                CHOOSE p \in 1..Len(Filtered) :
                    /\ mangled_name(Filtered[p]) = key
                    /\ \A q \in 1..(p - 1) : mangled_name(Filtered[q]) # key
            OfKey(k) ==
                LET Same(m) == mangled_name(m) = Key(k)
                IN  SelectSeq(Filtered, Same)
        IN  /\ \A k \in 1..Len(Overloads) :
                   /\ Overloads[k] # <<>>
                   /\ Overloads[k] = OfKey(k)
                   /\ Getters[k].name = Key(k)
            /\ \A k, l \in 1..Len(Overloads) :
                   k < l => Key(k) # Key(l) /\ First(Key(k)) < First(Key(l))
            /\ \A p \in 1..Len(Filtered) :
                   \E k \in 1..Len(Overloads) : Key(k) = mangled_name(Filtered[p])
            /\ Len(Flatten(Overloads)) = Len(Filtered)
            /\ Len(Getters) = Len(Overloads)

\* Three signatures that pass the filter, the second of another name than
\* the first and the third, have been grouped.
C11_Witness ==
    /\ Generated
    /\ Len(Filtered) = 3
    /\ mangled_name(Filtered[1]) = mangled_name(Filtered[3])
    /\ mangled_name(Filtered[1]) # mangled_name(Filtered[2])
    /\ Len(Overloads) = 2

(***************************************************************************)
(* C12.  A method of the source class is a member of some overload iff it  *)
(* is virtual and its access level is allowed; if no access levels are     *)
(* given the allowed set is {public}.  Methods that are not virtual or     *)
(* whose access level is not allowed are in no overload and get no         *)
(* override, also if they share their name with a mocked method.           *)
(***************************************************************************)
C12_Filter ==
    Generated =>
        LET Grouped(m) ==
                \E k \in 1..Len(Overloads) : \E i \in 1..Len(Overloads[k]) :
                    Overloads[k][i] = m
            passing ==
                {p \in 1..Len(class_.members) :
                    /\ class_.members[p].kind = "Method"
                    /\ class_.members[p].virtual
                    /\ class_.members[p].access \in AllowedAccess}
        IN  /\ \A p \in 1..Len(class_.members) :
                   class_.members[p].kind = "Method" =>
                       (Grouped(class_.members[p]) <=> p \in passing)
            /\ Len(Flatten(Overloads)) = Cardinality(passing)
            /\ Len(Overrides) = Cardinality(passing)
            /\ Len(DispatchMethods) = Cardinality(passing)

\* With no access levels given, a class with a public virtual method, a
\* protected virtual method and a method that is not virtual, all of one
\* name, has been mocked.
C12_Witness ==
    /\ Generated
    /\ args.access = <<>>
    /\ \E p, q, r \in 1..Len(class_.members) :
          LET a == class_.members[p]
              b == class_.members[q]
              c == class_.members[r]
          IN  /\ a.kind = "Method" /\ b.kind = "Method" /\ c.kind = "Method"
              /\ a.name = b.name /\ b.name = c.name
              /\ a.virtual /\ a.access = "public"
              /\ b.virtual /\ b.access = "protected"
              /\ ~c.virtual
    /\ Len(Overrides) = 1

(***************************************************************************)
(* Reading the calls of the Type methods.                                  *)
(***************************************************************************)
\* The Type with one more naked layer, as its p-th layer.
InsertNaked(t, p) ==
    [t EXCEPT !.layers = SubSeq(@, 1, p - 1) \o <<Naked>> \o SubSeq(@, p, Len(@))]

\* The layer carries a const or a volatile qualifier, or a reference marker.
Qualified(layer) == layer.const \/ layer.volatile

Reference(layer) == layer.lvalue_ref \/ layer.rvalue_ref

(***************************************************************************)
(* C13.  Decay is idempotent: the decayed Type of a decayed Type is that   *)
(* decayed Type, for every nesting of layers and every combination of      *)
(* flags.                                                                  *)
(***************************************************************************)
C13_DecayIdempotent ==
    called = "get_decayed" => get_decayed(returned) = returned

(***************************************************************************)
(* C14.  Simplification is idempotent: the simplified Type of a simplified *)
(* Type is that simplified Type.                                           *)
(***************************************************************************)
C14_SimplifyIdempotent ==
    called = "_get_simplified" => _get_simplified(returned) = returned

\* A Type of three layers, two of them naked, has been simplified to one
\* layer.
C14_Witness ==
    /\ called = "_get_simplified"
    /\ Len(self_.layers) = 3
    /\ _is_naked(self_.layers[1])
    /\ _is_naked(self_.layers[2])
    /\ Len(returned.layers) = 1
    /\ ~_is_naked(returned.layers[1])

(***************************************************************************)
(* C15.  The decayed Type is simplified and its outermost layer carries no *)
(* reference marker and no const or volatile qualifier: if the simplified  *)
(* Type is a reference, the reference marker is removed and const and      *)
(* volatile are stripped from the referent layer, otherwise they are       *)
(* stripped from the outer layer; pointer markers, pack markers and the    *)
(* qualifiers of deeper layers are left as they are.                       *)
(***************************************************************************)
C15_DecayedForm ==
    called = "get_decayed" =>
        LET simplified == _get_simplified(self_)
            L == simplified.layers
            stripped ==
                IF Reference(L[1])
                THEN LET unreferenced ==
                             [L EXCEPT ![1].lvalue_ref = FALSE, ![1].rvalue_ref = FALSE]
                     IN  IF Len(L) > 1
                         THEN [unreferenced EXCEPT ![2].const = FALSE,
                                                   ![2].volatile = FALSE]
                         ELSE unreferenced
                ELSE [L EXCEPT ![1].const = FALSE, ![1].volatile = FALSE]
        IN  /\ returned = _get_simplified([inner |-> self_.inner, layers |-> stripped])
            /\ _get_simplified(returned) = returned
            /\ ~Reference(returned.layers[1])
            /\ ~Qualified(returned.layers[1])

(***************************************************************************)
(* C16.  Parse/render round trip: for every Type whose outer layer is not  *)
(* naked, the text of the Type split into tokens and parsed gives a Type   *)
(* that has the same text.                                                 *)
(***************************************************************************)
C16_RoundTrip ==
    called = "from_spelling" /\ ~_is_naked(self_.layers[1]) =>
        /\ returned # IndexError
        /\ Type__str__(returned) = Type__str__(self_)

(***************************************************************************)
(* C17.  Simplification yields a canonical form: the result has no naked   *)
(* layer unless it is nothing but a terminal spelling, it has the text of  *)
(* its input, and a Type that differs from the input by one more naked     *)
(* layer, at any position, has the same simplified Type.                   *)
(***************************************************************************)
C17_Canonical ==
    called = "_get_simplified" =>
        /\ \A i \in 1..Len(returned.layers) :
               _is_naked(returned.layers[i]) => Len(returned.layers) = 1
        /\ returned.inner = self_.inner
        /\ Len(returned.layers) >= 1
        /\ Type__str__(returned) = Type__str__(self_)
        /\ \A p \in 1..(Len(self_.layers) + 1) :
               _get_simplified(InsertNaked(self_, p)) = returned
        /\ \A p \in 1..Len(self_.layers) :
               _is_naked(self_.layers[p]) /\ Len(self_.layers) > 1 =>
                   _get_simplified([self_ EXCEPT !.layers =
                                       SubSeq(@, 1, p - 1) \o SubSeq(@, p + 1, Len(@))])
                       = returned

\* A Type with a naked layer between two layers that are not naked, and a
\* Type whose last layer is naked, have been simplified.
C17_Witness ==
    /\ called = "_get_simplified"
    /\ Len(self_.layers) = 3
    /\ \/ /\ ~_is_naked(self_.layers[1])
          /\ _is_naked(self_.layers[2])
          /\ ~_is_naked(self_.layers[3])
          /\ Len(returned.layers) = 2
       \/ /\ ~_is_naked(self_.layers[1])
          /\ ~_is_naked(self_.layers[2])
          /\ _is_naked(self_.layers[3])
          /\ Len(returned.layers) = 2

(***************************************************************************)
(* C18.  Parsing a token sequence: the trailing const, volatile and "..."  *)
(* tokens and at most one indirection token before them set the flags of   *)
(* the outer layer; after an indirection token the tokens to its left are  *)
(* parsed as the inner layer; without one, the leading const and volatile  *)
(* tokens are added to the same layer and the tokens that are left, joined *)
(* by single spaces, are the terminal spelling; the result is simplified.  *)
(***************************************************************************)
TrailingTokens == {"const", "volatile", "..."}

LeadingTokens == {"const", "volatile"}

IndirectionTokens == {"*", "&", "&&"}

\* The number of tokens at the end of the sequence that are in the set.
CountTrailing(tokens, set) ==
    CHOOSE k \in 0..Len(tokens) :
        /\ \A i \in (Len(tokens) - k + 1)..Len(tokens) : tokens[i] \in set
        /\ k < Len(tokens) => tokens[Len(tokens) - k] \notin set

\* The number of tokens at the start of the sequence that are in the set.
CountLeading(tokens, set) ==
    CHOOSE k \in 0..Len(tokens) :
        /\ \A i \in 1..k : tokens[i] \in set
        /\ k < Len(tokens) => tokens[k + 1] \notin set

\* The flags that the tokens at the positions set.
FlagsOf(tokens, positions) ==
    LET has(token) == \E i \in positions : tokens[i] = token
    IN  [const |-> has("const"), volatile |-> has("volatile"),
         lvalue_ref |-> has("&"), rvalue_ref |-> has("&&"),
         pointer |-> has("*"), parameter_pack |-> has("...")]

RECURSIVE ParsedLayers(_)
\* The Type that the claim describes for the tokens, or IndexError where
\* the tokens hold no terminal spelling.
ParsedLayers(tokens) ==
    LET n == Len(tokens) - CountTrailing(tokens, TrailingTokens)
    IN  IF n = 0 THEN IndexError
        ELSE IF tokens[n] \in IndirectionTokens
        THEN LET inner == ParsedLayers(SubSeq(tokens, 1, n - 1))
             IN  IF inner = IndexError THEN IndexError
                 ELSE _get_simplified(Wrap(inner, FlagsOf(tokens, n..Len(tokens))))
        ELSE LET k == CountLeading(SubSeq(tokens, 1, n), LeadingTokens)
             IN  IF k = n THEN IndexError
                 ELSE _get_simplified(
                          Type(Join(SubSeq(tokens, k + 1, n), " "),
                               FlagsOf(tokens, (1..k) \cup ((n + 1)..Len(tokens)))))

C18_Parse ==
    called = "from_tokens" =>
        /\ returned = ParsedLayers(self_)
        /\ returned # IndexError => _get_simplified(returned) = returned

\* Tokens with a qualifier in front of the base type and a qualifier after
\* an indirection have been parsed into two layers.
C18_Witness ==
    /\ called = "from_tokens"
    /\ \E base \in {"T", "unsigned"} : self_ = <<"const", base, "*", "volatile">>
                                       \/ self_ = <<"const", base, "*">>
    /\ returned # IndexError
    /\ Len(returned.layers) = 2
    /\ returned.layers[1].pointer
    /\ returned.layers[2].const

(***************************************************************************)
(* C19.  Rendering a layer gives the rendering of the inner value, then    *)
(* " &" for an lvalue reference or " &&" for an rvalue reference; on a     *)
(* pointer layer " *" followed by " const" and then " volatile" for the    *)
(* qualifiers of the layer; on a layer that is not a pointer the           *)
(* qualifiers in front, as "const " and then "volatile "; and the pack     *)
(* marker " ..." at the very end.                                          *)
(***************************************************************************)
RECURSIVE Rendered(_, _)
\* The text that the claim describes for the layers over the inner value.
Rendered(inner, layers) ==
    IF layers = <<>> THEN inner
    ELSE LET layer == layers[1]
             marked == Rendered(inner, Tail(layers))
                           \o Times(layer.lvalue_ref, " &")
                           \o Times(layer.rvalue_ref, " &&")
             qualified ==
                 IF layer.pointer
                 THEN marked \o " *" \o Times(layer.const, " const")
                             \o Times(layer.volatile, " volatile")
                 ELSE Times(layer.const, "const ") \o Times(layer.volatile, "volatile ")
                          \o marked
         IN  qualified \o Times(layer.parameter_pack, " ...")

C19_Render ==
    called = "__str__" => Text(returned) = Rendered(self_.inner, self_.layers)

\* A const volatile pointer to a const value has been rendered.
C19_Witness ==
    /\ called = "__str__"
    /\ Len(self_.layers) = 2
    /\ self_.layers[1].pointer /\ self_.layers[1].const /\ self_.layers[1].volatile
    /\ self_.layers[2].const /\ ~self_.layers[2].pointer
    /\ Text(returned) = "const T * const volatile"

(***************************************************************************)
(* C20.  For every entry (symbol, fragment) of the operator table the      *)
(* mangled name of operator followed by the symbol is operator followed by *)
(* the fragment; operator<=> mangles to operatorSpaceShip and operator<=   *)
(* to operatorLesserOrEqual.  Every symbol of the table that contains      *)
(* another symbol of the table stands before it, and the names of distinct *)
(* symbols have distinct mangled names.                                    *)
(***************************************************************************)
\* The characters of k stand somewhere in s, one after the other.
Contains(s, k) ==
    \E p \in 1..(Len(s) - Len(k) + 1) : SubSeq(s, p, p + Len(k) - 1) = k

Entries == 1..Len(_OPERATOR_SYMBOLS)

OperatorName(i) == Name_operator \o _OPERATOR_SYMBOLS[i][1]

IdentifierCharacters == {"f", "g", "_", "c", "o", "a", "w", "i", "t"}

\* The name is made of the characters of identifiers only.
IsIdentifier(name) ==
    /\ name # <<>>
    /\ \A i \in 1..Len(name) : name[i] \in IdentifierCharacters

C21_IdentifierUnchanged ==
    called = "mangled_name" /\ IsIdentifier(self_) /\ ~is_operator(self_) =>
        returned = self_

(***************************************************************************)
(* C29.  Parsing fails fast: from_tokens raises an error for the empty     *)
(* token sequence, for a sequence made only of const, volatile, "..." and  *)
(* indirection tokens, and for a sequence whose tokens left of the         *)
(* indirection it reads are of that kind; a Type that it returns has a     *)
(* terminal spelling that is not empty and that is made of tokens of the   *)
(* sequence, never the temporary name.                                     *)
(***************************************************************************)
KeywordTokens == TrailingTokens \cup IndirectionTokens

\* The sequence holds no token of a terminal spelling.
NoTerminalToken(tokens) == \A i \in 1..Len(tokens) : tokens[i] \in KeywordTokens

\* The tokens in front of the indirection that is read from the right hold
\* no token of a terminal spelling.
NoTerminalLeftOfIndirection(tokens) ==
    LET n == Len(tokens) - CountTrailing(tokens, TrailingTokens)
    IN  /\ n > 0
        /\ tokens[n] \in IndirectionTokens
        /\ NoTerminalToken(SubSeq(tokens, 1, n - 1))

SignatureKey(f) == <<f.params, f.const, f.volatile, f.lvalue, f.rvalue>>

C30_DistinctAccess ==
    Generated =>
        \A k \in 1..Len(Overloads) :
            LET methods == Overloads[k]
                members == 1..Len(methods)
                statements == generate_set_parent(methods)
            IN  (\A i, j \in members :
                     i # j => SignatureKey(methods[i]) # SignatureKey(methods[j]))
                => \A i, j \in members :
                       i # j =>
                           /\ _generate_access(methods, methods[i])
                                  # _generate_access(methods, methods[j])
                           /\ statements[i] # statements[j]

(***************************************************************************)
(* C23.  The transformation does not modify its input: building the mock   *)
(* object and the mock implementation leaves the source class model as it  *)
(* is (the same members in the same order, each with its access level,     *)
(* parameters, flags and body), so the mock implementation that is built   *)
(* after the mock object is the one that is built from the class as read.  *)
(***************************************************************************)
C23_InputUnchanged ==
    [][pc' # "from_node" =>
           /\ class_' = class_
           /\ _generate_mock_implementation(MockImplementationName(class_'), class_',
                                            args.access, args.namespace)
                  = _generate_mock_implementation(MockImplementationName(class_), class_,
                                                  args.access, args.namespace)]_vars

(***************************************************************************)
(* Reading the outcome of the command line entry point.                    *)
(***************************************************************************)
\* The entry point has ended with both files written.
Succeeded == pc = "exit" /\ returned.raised = ""

RECURSIVE NamedComponents(_)
\* The names in a namespace path: the runs of characters between colons.
NamedComponents(namespace) ==
    IF namespace = <<>> THEN <<>>
    ELSE IF Head(namespace) = ":" THEN NamedComponents(Tail(namespace))
    ELSE LET colons == {i \in 1..Len(namespace) : namespace[i] = ":"}
             end == IF colons = {} THEN Len(namespace)
                    ELSE (CHOOSE i \in colons : \A j \in colons : i <= j) - 1
         IN  <<Text(SubSeq(namespace, 1, end))>>
                 \o NamedComponents(SubSeq(namespace, end + 1, Len(namespace)))

\* The override starts with "::".
IsAbsolute(namespace) ==
    Len(namespace) >= 2 /\ SubSeq(namespace, 1, 2) = <<":", ":">>

\* C27: the namespace of both generated classes is the path of the source
\* class for an empty override, exactly the components named after the
\* leading "::" (none of them empty) for an override that starts with "::",
\* and the path of the source class followed by the components of the
\* override otherwise; the path of the source class is not modified.
C27_Namespace ==
    pc = "mock_implementation" =>
        LET source == self_.enclosing_namespace
            expected == IF args.namespace = <<>> THEN source
                        ELSE IF IsAbsolute(args.namespace)
                        THEN NamedComponents(args.namespace)
                        ELSE source \o NamedComponents(args.namespace)
        IN  /\ mock_object.enclosing_namespace = expected
            /\ mock_implementation.enclosing_namespace = expected
            /\ \A i \in 1..Len(expected) : expected[i] # ""
            /\ class_.enclosing_namespace = source

\* The class body of the header that was read contains Q_OBJECT.
ContainsQObject == \E i \in 1..Len(self_.header) : self_.header[i] = "Q_OBJECT"

\* C22: when the class body of the input contains Q_OBJECT, then after the
\* macros are hidden and the class model is extracted from the rewritten
\* text, the q_object flag of the class model is set, the marker declaration
\* is not a member, and the mock implementation is rendered with Q_OBJECT.
C22_QObject ==
    pc \in {"from_node", "mock_object", "mock_implementation"} /\ ContainsQObject =>
        /\ class_.q_object
        /\ \A i \in 1..Len(class_.members) :
               class_.members[i].kind \in {"Method", "TypeAlias"}
        /\ pc = "mock_implementation" =>
               LET text == Class__str__(mock_implementation)
               IN  \E i \in 1..Len(text) : text[i].by = "q_object"

\* The text of a generated class in the header that was written.
HeaderText(by) ==
    LET header == returned.header
        i == CHOOSE i \in 1..Len(header) : header[i].by = by
    IN  header[i].text

\* The positions of the pieces of a kind in a text.
Positions(text, by) == {p \in 1..Len(text) : text[p].by = by}

\* The text of the class c has its members in the order of the member list,
\* an access specifier immediately before a member exactly when the access
\* of the member differs from that of the member before ("private" for the
\* first), and as many namespace openings and closing braces as the
\* enclosing namespace has components.
RenderedAs(text, c) ==
    LET members == Positions(text, "member")
        Index(p) == Cardinality({q \in members : q <= p})
        AccessBefore(j) == IF j = 1 THEN "private" ELSE c.members[j - 1].access
    IN  /\ Cardinality(members) = Len(c.members)
        /\ \A p \in members :
               /\ text[p].text = c.members[Index(p)]
               /\ text[p - 1].by = "access"
                      <=> c.members[Index(p)].access # AccessBefore(Index(p))
               /\ text[p - 1].by = "access"
                      => text[p - 1].text = "\n" \o c.members[Index(p)].access \o ":\n"
        /\ \A p \in Positions(text, "access") : p + 1 \in members
        /\ Cardinality(Positions(text, "namespace")) = Len(c.enclosing_namespace)
        /\ Cardinality(Positions(text, "close")) = Len(c.enclosing_namespace)

\* C24: in the text of a class an access specifier stands immediately
\* before a member if and only if the access of the member differs from that
\* of the member before (from "private" for the first member), the members
\* stand in the order of the member list, no specifier is repeated for two
\* adjacent members, and the body is wrapped in exactly k namespace openings
\* and k closing braces for an enclosing namespace of k components (none for
\* the empty path).
C24_AccessSpecifiers ==
    Succeeded =>
        /\ RenderedAs(HeaderText("mock_object"), mock_object)
        /\ RenderedAs(HeaderText("mock_implementation"), mock_implementation)

\* A mock object in a namespace was written whose text has a specifier
\* before a member and two adjacent members with none between them.
C24_Witness ==
    /\ Succeeded
    /\ Len(mock_object.enclosing_namespace) = 2
    /\ LET text == HeaderText("mock_object")
       IN  /\ Positions(text, "access") # {}
           /\ \E p \in Positions(text, "member") : p - 1 \in Positions(text, "member")

\* The explicit instantiation declarations of the header that was written
\* and the explicit instantiation definitions of the source text.
Declarations ==
    LET IsDeclaration(piece) == piece.by = "_explicit_instantiation_decl"
    IN  SelectSeq(returned.header, IsDeclaration)

Definitions ==
    LET IsDefinition(piece) == piece.by = "_explicit_instantiation_definition"
    IN  SelectSeq(returned.source, IsDefinition)

\* The source class is not a template and declares no type alias.
NotTemplateNoAlias ==
    /\ ~self_.template
    /\ \A i \in 1..Len(class_.members) : class_.members[i].kind # "TypeAlias"

Placeholder == "// This source file is intentionally left blank"

\* The definitions of the source text are those of the keys of the
\* declarations of the header, in the same order: a declaration is "extern "
\* followed by the definition of its key.
SameKeys ==
    /\ Len(Definitions) = Len(Declarations)
    /\ \A i \in 1..Len(Declarations) :
           Declarations[i].text = "extern " \o Definitions[i].text

\* C25: the header contains explicit instantiation declarations if and only
\* if the source class is not a template and declares no type alias; in that
\* case the source text contains the definitions for exactly the same keys
\* in the same order; otherwise the header has no declaration and the source
\* text is only the placeholder comment.
C25_Instantiation ==
    Succeeded =>
        /\ Declarations # <<>> <=> NotTemplateNoAlias
        /\ NotTemplateNoAlias => SameKeys
        /\ ~NotTemplateNoAlias =>
               /\ Declarations = <<>>
               /\ returned.source = <<Piece("text", Placeholder)>>

\* C25, amended: the header contains explicit instantiation declarations if
\* and only if the source class is not a template, declares no type alias
\* and has a virtual method; when the class is not a template and declares
\* no type alias, the source text is the include of the header followed by
\* the definitions for exactly the same keys in the same order (none without
\* a virtual method) and has no placeholder; otherwise the header has no
\* declaration and the source text is only the placeholder comment.
C25_InstantiationOfMethods ==
    Succeeded =>
        /\ Declarations # <<>>
               <=> NotTemplateNoAlias /\ get_virtual_methods(class_) # <<>>
        /\ NotTemplateNoAlias =>
               /\ SameKeys
               /\ returned.source[1].by = "_include_quotes"
               /\ \A i \in 1..Len(returned.source) :
                      returned.source[i].text # Placeholder
        /\ ~NotTemplateNoAlias =>
               /\ Declarations = <<>>
               /\ returned.source = <<Piece("text", Placeholder)>>

\* Files were written for a class that is not a template, has no alias and
\* has virtual methods of two keys.
C25_Witness ==
    /\ Succeeded
    /\ NotTemplateNoAlias
    /\ Len(Declarations) = 2
    /\ Len(Definitions) = 2

\* The instantiation key of a virtual method of the source class: the
\* owning class, the return type, the decayed parameter types.
InstantiationKey(method) ==
    <<full_name(class_), Type__str__(method.return_type),
      [i \in 1..Len(method.params) |-> Type__str__(get_decayed(method.params[i]))]>>

\* The virtual methods of the source class whose key no virtual method
\* before them has, by their position among the virtual methods.
FirstOccurrences ==
    LET virtual == get_virtual_methods(class_)
    IN  {i \in 1..Len(virtual) :
            \A j \in 1..(i - 1) :
                InstantiationKey(virtual[j]) # InstantiationKey(virtual[i])}

\* The n-th of them.
FirstOccurrence(n) ==
    CHOOSE i \in FirstOccurrences : Cardinality({j \in FirstOccurrences : j <= i}) = n

\* C26: the explicit instantiation list has no duplicate: every key (owning
\* class, return type, decayed parameter types) appears exactly once, at the
\* position of its first occurrence in member order, also when several
\* virtual signatures decay to the same key.
C26_NoDuplicate ==
    Succeeded /\ NotTemplateNoAlias =>
        LET virtual == get_virtual_methods(class_)
            Expr(n) == _generate_method_template(full_name(class_),
                                                 virtual[FirstOccurrence(n)])
        IN  /\ Len(Declarations) = Cardinality(FirstOccurrences)
            /\ Len(Definitions) = Cardinality(FirstOccurrences)
            /\ \A n \in 1..Len(Declarations) :
                   /\ Declarations[n].text = "extern template class " \o Expr(n) \o ";"
                   /\ Definitions[n].text = "template class " \o Expr(n) \o ";"
            /\ \A m, n \in 1..Len(Declarations) :
                   m # n => /\ Declarations[m].text # Declarations[n].text
                            /\ Definitions[m].text # Definitions[n].text

\* Files were written for a class with two virtual signatures of one key
\* and a third of another key after them.
C26_Witness ==
    /\ Succeeded
    /\ NotTemplateNoAlias
    /\ get_virtual_methods(class_) = <<Method_f_int, Method_f_ref, Method_f>>
    /\ Len(Declarations) = 2

\* The text on stderr starts with the prefix of a reported error.
StartsWithPrefix ==
    returned.stderr # <<>> /\ returned.stderr[1] = "drmock-generator: error: "

\* C28: the entry point ends with exit code 0 when generation succeeds,
\* with exit code 1 and a message on stderr that starts with
\* "drmock-generator: error:" when generation raises the reported runtime
\* error, and with exit code 2 when the arguments are malformed; another
\* exception is not converted into the reported error.
C28_ExitCodes ==
    pc = "exit" =>
        /\ returned.raised = "" => returned.code = 0 /\ returned.stderr = <<>>
        /\ returned.raised = "DrMockRuntimeError" =>
               returned.code = 1 /\ StartsWithPrefix
        /\ returned.raised = "SystemExit" => returned.code = 2
        /\ returned.raised \notin {"", "DrMockRuntimeError", "SystemExit"} =>
               ~StartsWithPrefix /\ returned.stderr[2] = returned.raised
        /\ returned.code = 0 => returned.header # <<>> /\ returned.source # <<>>

\* The header was rewritten and the writing of the files has failed.
C28_Witness ==
    /\ pc = "exit"
    /\ returned.raised = "DrMockRuntimeError"
    /\ mock_implementation # NoClass
====
